---- MODULE Spec2Model ----
(***************************************************************************)
(* Model of the remmitt batch-transfer engine (the BatchTransfer contract),*)
(* of its TypeScript client library (batch-contract.ts: validator, cost    *)
(* estimate, encoder, dispatch adapter), of the adapter of ContractService *)
(* and of the login of XellarService.                                      *)
(*                                                                         *)
(* One call of the contract is one EVM transaction: it runs alone, step by *)
(* step, against a snapshot of the chain state taken when it starts, and a *)
(* revert puts the snapshot back.  The funding token is a standard ERC-20  *)
(* ledger (balances, allowances toward the engine) with a blocklist, that  *)
(* signals a refused transfer either by reverting or by returning false.   *)
(***************************************************************************)
EXTENDS Integers, Sequences, FiniteSets, TLC

(***************************************************************************)
(* Bounds of the model.                                                    *)
(***************************************************************************)
\* Width in bits of the modelled unsigned word (uint256 in the contract).
W == 8
\* Longest enumerated recipient / amount list of the small batches.
MaxLen == 2
\* Largest ordinary amount of an enumerated batch.
MaxAmt == 2
\* Number of transactions (batchSend or emergencyWithdraw) of one behaviour.
MaxTx == 2
\* Highest block number reached.
MaxBlock == 1
\* Initial balance and allowance of the first sender.
InitBal == 2
InitAllow == 3
\* Largest recipient count the cost estimators are asked about.
MaxCount == 300
\* Longest list handed to the encoder and to the dispatch adapter.
MaxArgs == 2
\* Latest reading of the client's clock.
MaxNow == 1

\* Entries the recipient store's lists hold at most.
MaxStore == 2
MaxSelected == 2

MaxUint == 2^W - 1

(***************************************************************************)
(* Program constants.                                                      *)
(***************************************************************************)
MAX_RECIPIENTS == 200
ClientMaxRecipients == 200

(***************************************************************************)
(* Identities.                                                             *)
(***************************************************************************)
Zero == "0x0000000000000000000000000000000000000000"
Deployer == "deployer"
Engine == "engine"
Token == "usdc"
Senders == {"alice"}
Holders == {Deployer, Engine, "alice", "bob", "carol", "dave"}
\* Accounts the token refuses to credit (a blocklist, as USDC has).
Blocked == {"carol"}
RecipientIds == {Zero, Engine, "alice", "bob", "carol", "dave"}
AmountValues == (0..MaxAmt) \cup {MaxUint}
TokenStyles == {"reverts", "returnsFalse"}

VARIABLES
  owner,        \* BatchTransfer.owner (immutable)
  bal,          \* token ledger: balanceOf
  allow,        \* token ledger: allowance(holder, engine)
  tokenStyle,   \* how the token signals a refused transfer
  log,          \* the event log of the engine (append-only)
  blockNo,      \* block.number; block.timestamp advances with it
  nTx,          \* transactions finished so far
  pc,           \* position of the running transaction
  call,         \* which function the running transaction called
  sender,       \* msg.sender of the running transaction
  recipients,   \* batchSend argument
  amounts,      \* batchSend argument
  wAmount,      \* emergencyWithdraw argument
  totalAmount,  \* batchSend local
  batchId,      \* batchSend return value
  idx,          \* disbursements done by the running batchSend
  err,          \* the error a reverted transaction reverted with
  tokenCalls,   \* token calls (transferFrom, transfer) the transaction attempted
  snapshot,     \* chain state when the running transaction started
  cRecipients,  \* validateBatchTransfer argument
  cAmounts,     \* validateBatchTransfer argument
  cResult,      \* validateBatchTransfer result
  cPc,          \* position of the client call
  cToken,       \* getBatchTransferCalldata argument
  cCount,       \* estimateBatchGas / estimateGas argument
  cOut,         \* what the library calls made so far returned
  cNow,         \* Date.now() of the client
  aVia,         \* the adapter entry point that was called
  aChain,       \* getChainId()
  aTable,       \* BATCH_CONTRACT_ADDRESSES
  aCaps,        \* the submission capabilities the host client exposes
  aOutcome,     \* how the host's transport answers a submission
  aRecipients,  \* executeBatchTransfer params.recipients (wallet addresses)
  aAmounts,     \* executeBatchTransfer params.amounts (USD, in units of 10^-7)
  aPc,          \* position of the adapter call
  aStages,      \* the stages the adapter call went through
  aCalls,       \* the submissions the adapter call made to the host
  aResult,      \* the result the adapter call returned
  loginMethod,  \* verifyOTP or loginWithGoogle
  sdkAuth,      \* how the SDK answers the authentication call
  sdkWallet,    \* how the SDK answers account.wallet.create
  sessionToken, \* XellarService.sessionToken
  refreshToken, \* XellarService.refreshToken
  rampableAccessToken, \* XellarService.rampableAccessToken
  walletAddress,       \* XellarService.walletAddress
  lPc,          \* position of the login call
  lResult,      \* what the login call returned or threw
  oX,           \* a batchSend invocation waiting to be executed
  oY,           \* another one, submitted concurrently
  oXY,          \* what executing oX and then oY gave
  oYX,          \* what executing oY and then oX gave
  oPc,          \* position of the comparison of the two orders
  authStore,    \* useAuthStore: the state of the store
  rPc,          \* position of the refreshSession call
  rAnswer,      \* how client.wallet.refreshToken answers
  rResponse,    \* what refreshAccessToken returned or threw
  rReturned,    \* what refreshSession returned ("" while it has not)
  rLogout,      \* logout was called while the refreshSession call was waiting
  recipientStore, \* useRecipientStore: the state of the store
  sLast,        \* the operation of the recipient store called last
  sBefore       \* the state that operation was called in

engineVars == <<owner, bal, allow, tokenStyle, log, blockNo, nTx, pc, call, sender,
                recipients, amounts, wAmount, totalAmount, batchId, idx, err,
                tokenCalls, snapshot>>
adapterVars == <<aVia, aChain, aTable, aCaps, aOutcome, aRecipients, aAmounts, aPc,
                 aStages, aCalls, aResult>>
libVars == <<cToken, cCount, cOut, cNow>>
loginVars == <<loginMethod, sdkAuth, sdkWallet, sessionToken, refreshToken,
               rampableAccessToken, walletAddress, lPc, lResult>>
orderVars == <<oX, oY, oXY, oYX, oPc>>
authVars == <<authStore, rPc, rAnswer, rResponse, rReturned, rLogout>>
storeVars == <<recipientStore, sLast, sBefore>>
storesVars == <<authVars, storeVars>>
clientVars == <<cRecipients, cAmounts, cResult, cPc, libVars, adapterVars, loginVars,
                orderVars, storesVars>>
vars == <<engineVars, clientVars>>

(***************************************************************************)
(* Pure helpers.                                                           *)
(***************************************************************************)
\* s[lo] + ... + s[hi], by halving (a batch may hold over 200 amounts).
RECURSIVE SumRange(_, _, _)
SumRange(s, lo, hi) ==
  IF lo > hi THEN 0
  ELSE IF lo = hi THEN s[lo]
  ELSE LET mid == (lo + hi) \div 2 IN SumRange(s, lo, mid) + SumRange(s, mid + 1, hi)

SumSeq(s) == SumRange(s, 1, Len(s))

Range(s) == {s[i] : i \in DOMAIN s}

RECURSIVE SumOver(_, _)
SumOver(f, S) ==
  IF S = {} THEN 0
  ELSE LET x == CHOOSE y \in S : TRUE IN f[x] + SumOver(f, S \ {x})

NoId == <<>>
NoSnapshot == [bal |-> [h \in Holders |-> 0], allow |-> [h \in Holders |-> 0], log |-> <<>>]

(***************************************************************************)
(* The funding token (IERC20): a standard ledger.                          *)
(***************************************************************************)
Move(b, from, to, amt) ==
  [h \in Holders |-> b[h] - (IF h = from THEN amt ELSE 0) + (IF h = to THEN amt ELSE 0)]

\* transfer(to, amt) called by `from` is accepted.
TransferOk(b, from, to, amt) ==
  /\ to \in Holders
  /\ to \notin Blocked
  /\ b[from] >= amt
  /\ (to = from \/ b[to] + amt <= MaxUint)

\* transferFrom(from, to, amt) called by the engine is accepted.
TransferFromOk(b, a, from, to, amt) ==
  /\ a[from] >= amt
  /\ TransferOk(b, from, to, amt)

(***************************************************************************)
(* BatchTransfer.batchSend: validation and total.                          *)
(***************************************************************************)
LengthMismatch(rs, as) == Len(rs) # Len(as)

EmptyBatchError == "ZeroAmount"

\* The loop of lines 85-89 stops at the first index where a check fails; at
\* that index the recipient is checked first, then the amount, then the
\* checked addition (Solidity 0.8 panics on overflow).
LoopFails(rs, as, i) ==
  \/ rs[i] = Zero
  \/ as[i] = 0
  \/ SumRange(as, 1, i) > MaxUint

\* The loop passes every index exactly when there is no zero recipient, no
\* zero amount and the whole sum fits the word (amounts are unsigned, so
\* the partial sums only grow).
LoopPasses(rs, as) ==
  /\ \A i \in 1..Len(as) : rs[i] # Zero /\ as[i] # 0
  /\ SumSeq(as) <= MaxUint

LoopError(rs, as) ==
  LET k == CHOOSE i \in 1..Len(as) :
             LoopFails(rs, as, i) /\ \A j \in 1..(i - 1) : ~LoopFails(rs, as, j)
  IN [err |-> IF rs[k] = Zero THEN "ZeroAddress"
              ELSE IF as[k] = 0 THEN "ZeroAmount"
              ELSE "Panic",
      total |-> SumRange(as, 1, k - 1)]

\* Variant: the total leaves out the last amount.
ValidateLoopShortTotal(rs, as) ==
  IF LoopPasses(rs, as) THEN [err |-> "", total |-> SumRange(as, 1, Len(as) - 1)]
  ELSE LoopError(rs, as)

\* Variant: nothing is added up, so nothing is collected.
ValidateLoopNoTotal(rs, as) ==
  IF LoopPasses(rs, as) THEN [err |-> "", total |-> 0]
  ELSE LoopError(rs, as)

\* Variant: unchecked addition, the total wraps around the word.
ValidateLoopWrapping(rs, as) ==
  IF \A i \in 1..Len(as) : rs[i] # Zero /\ as[i] # 0
  THEN [err |-> "", total |-> SumSeq(as) % (MaxUint + 1)]
  ELSE LoopError(rs, as)

ValidateLoop(rs, as) ==
  IF LoopPasses(rs, as) THEN [err |-> "", total |-> SumSeq(as)]
  ELSE LoopError(rs, as)

EngineValidate(rs, as) ==
  IF LengthMismatch(rs, as) THEN [err |-> "ArraysLengthMismatch", total |-> 0]
  ELSE IF Len(rs) = 0 THEN [err |-> EmptyBatchError, total |-> 0]
  ELSE ValidateLoop(rs, as)

\* keccak256(abi.encodePacked(...)): the packed fields stand for their hash.
BatchIdOf(s, n) == <<blockNo, s, Token, n, blockNo>>

\* Variant: the allowance is not checked.
AllowanceNeverShort(allowance, total) == FALSE

AllowanceShort(allowance, total) == allowance < total

\* Variant: every transfer event carries the first pair.
TransferIndexedFirst(id, i) ==
  [event |-> "TransferIndexed", batchId |-> id, recipient |-> recipients[1],
   amount |-> amounts[1]]

TransferIndexed(id, i) ==
  [event |-> "TransferIndexed", batchId |-> id, recipient |-> recipients[i],
   amount |-> amounts[i]]

BatchTransferIndexed(id) ==
  [event |-> "BatchTransferIndexed", batchId |-> id, token |-> Token,
   sender |-> sender, totalAmount |-> totalAmount,
   recipientCount |-> Len(recipients)]

\* Variant: no owner check.
IsOwnerAnyone(caller) == TRUE

IsOwner(caller) == caller = owner

(***************************************************************************)
(* BatchTransfer.batchSend as one function of the ledger: what the whole   *)
(* transaction leaves behind.                                              *)
(***************************************************************************)
\* Variant: every batch is collected from the same account.
PayerFixed(s) == "alice"

\* msg.sender: the account the batch is collected from.
Payer(s) == s

\* Variant: the collecting transferFrom leaves the allowance as it was.
ConsumeNothing(a, from, amt) == a

\* transferFrom consumes the allowance it uses.
Consume(a, from, amt) == [a EXCEPT ![from] = @ - amt]

\* The distribution loop from index i on, starting with the balances b: the
\* balances it ends with, and whether every transfer was accepted.
RECURSIVE DistributeFrom(_, _, _, _)
DistributeFrom(b, rs, as, i) ==
  IF i > Len(rs) THEN [ok |-> TRUE, bal |-> b]
  ELSE IF ~TransferOk(b, Engine, rs[i], as[i]) THEN [ok |-> FALSE, bal |-> b]
  ELSE DistributeFrom(Move(b, Engine, rs[i], as[i]), rs, as, i + 1)

Reverted(L, e) ==
  [committed |-> FALSE, err |-> e, total |-> 0, bal |-> L.bal, allow |-> L.allow]

BatchEffect(L, s, rs, as) ==
  LET v == EngineValidate(rs, as)
      from == Payer(s)
  IN IF v.err # "" THEN Reverted(L, v.err)
     ELSE IF AllowanceShort(L.allow[from], v.total)
     THEN Reverted(L, "InsufficientAllowance")
     ELSE IF ~TransferFromOk(L.bal, L.allow, from, Engine, v.total)
     THEN Reverted(L, IF tokenStyle = "reverts" THEN "TokenReverted" ELSE "TransferFailed")
     ELSE LET d == DistributeFrom(Move(L.bal, from, Engine, v.total), rs, as, 1) IN
            IF ~d.ok
            THEN Reverted(L, IF tokenStyle = "reverts" THEN "TokenReverted"
                             ELSE "TransferFailed")
            ELSE [committed |-> TRUE, err |-> "", total |-> v.total, bal |-> d.bal,
                  allow |-> Consume(L.allow, from, v.total)]

\* Two invocations executed one after the other.
InOrder(L, p, q) ==
  LET e1 == BatchEffect(L, p.sender, p.recipients, p.amounts)
      e2 == BatchEffect([bal |-> e1.bal, allow |-> e1.allow],
                        q.sender, q.recipients, q.amounts)
  IN [first |-> e1, second |-> e2]

NoBatch == [sender |-> "", recipients |-> <<>>, amounts |-> <<>>]
NoEffect ==
  [committed |-> FALSE, err |-> "", total |-> 0, bal |-> [h \in Holders |-> 0],
   allow |-> [h \in Holders |-> 0]]
NoOrder == [first |-> NoEffect, second |-> NoEffect]

OrderIdle ==
  /\ oX = NoBatch
  /\ oY = NoBatch
  /\ oXY = NoOrder
  /\ oYX = NoOrder
  /\ oPc = "off"

(***************************************************************************)
(* Client library: validateBatchTransfer.                                  *)
(***************************************************************************)
MsgEmpty == "At least one recipient is required"
MsgLength == "Recipients and amounts must have the same length"
MsgTooMany == "Maximum 200 recipients per batch"
MsgRecipient == "Invalid recipient address at index"
MsgAmount == "Invalid amount at index"

Valid == [valid |-> TRUE, error |-> "", index |-> -1]
Invalid(msg, i) == [valid |-> FALSE, error |-> msg, index |-> i]

\* Variant: off by one at the limit.
ClientTooManyOffByOne(n) == n >= ClientMaxRecipients

ClientTooMany(n) == n > ClientMaxRecipients

\* !recipients[i] || recipients[i] === "0x000...0"
ClientBadRecipient(r) == r = "" \/ r = Zero

\* amounts[i] <= BigInt(0)
ClientBadAmount(a) == a <= 0

\* Variant: a recipient listed twice is refused.
ClientLoopNoDuplicates(rs, as) ==
  IF \E i \in DOMAIN rs : \E j \in DOMAIN rs : i # j /\ rs[i] = rs[j]
  THEN Invalid(MsgRecipient, 0)
  ELSE Valid

\* The loop of lines 105-112 returns at the first index where a check fails;
\* at that index the recipient is checked before the amount.  The index of
\* the message counts from 0.
ClientLoop(rs, as) ==
  LET bad == {i \in 1..Len(rs) : ClientBadRecipient(rs[i]) \/ ClientBadAmount(as[i])} IN
    IF bad = {} THEN Valid
    ELSE LET k == CHOOSE i \in bad : \A j \in bad : i <= j IN
           IF ClientBadRecipient(rs[k]) THEN Invalid(MsgRecipient, k - 1)
           ELSE Invalid(MsgAmount, k - 1)

\* Variant: the lengths are compared first, all recipients before all amounts.
validateListedOrder(rs, as) ==
  IF Len(rs) # Len(as) THEN Invalid(MsgLength, -1)
  ELSE IF Len(rs) = 0 THEN Invalid(MsgEmpty, -1)
  ELSE IF ClientTooMany(Len(rs)) THEN Invalid(MsgTooMany, -1)
  ELSE LET badR == {i \in 1..Len(rs) : ClientBadRecipient(rs[i])}
           badA == {i \in 1..Len(rs) : ClientBadAmount(as[i])}
       IN IF badR # {}
          THEN Invalid(MsgRecipient, (CHOOSE i \in badR : \A j \in badR : i <= j) - 1)
          ELSE IF badA # {}
          THEN Invalid(MsgAmount, (CHOOSE i \in badA : \A j \in badA : i <= j) - 1)
          ELSE Valid

validateBatchTransfer(rs, as) ==
  IF Len(rs) = 0 THEN Invalid(MsgEmpty, -1)
  ELSE IF Len(rs) # Len(as) THEN Invalid(MsgLength, -1)
  ELSE IF ClientTooMany(Len(rs)) THEN Invalid(MsgTooMany, -1)
  ELSE ClientLoop(rs, as)

ClientRecipientIds == {"", Zero, "bob", "carol"}
ClientAmountValues == -1..MaxAmt

(***************************************************************************)
(* Client library: cost estimate and instruction encoding.                 *)
(***************************************************************************)
\* Variant: the base cost is left out.
estimatePerRecipientOnly(recipientCount) == recipientCount * 35000

estimateBatchGas(recipientCount) == 50000 + recipientCount * 35000

\* BatchTransfer.estimateGas (pure; uint256, far from overflow for any count
\* the model asks about).
estimateGas(recipientCount) == 50000 + recipientCount * 35000

\* The first four bytes of keccak256 of a canonical signature, tabulated for
\* the signatures the client encodes.
Keccak4 ==
  ("batchSend(address,address[],uint256[])" :> "0x19648bed")
    @@ ("approve(address,uint256)" :> "0x095ea7b3")

\* parseAbi + functionName: the canonical signature of the encoded call.
BatchSendSignature == "batchSend(address,address[],uint256[])"

\* A string that is not a 20-byte hex address (viem refuses to encode it).
Malformed == "0x123"

\* The 160-bit value of a well-formed address, as a number.
AddressValue ==
  (Zero :> 0) @@ (Token :> 1) @@ (Engine :> 2) @@ ("alice" :> 3) @@ ("bob" :> 4)
    @@ ("carol" :> 5) @@ ("dave" :> 6) @@ (Deployer :> 7)

IsAddress(a) == a \in DOMAIN AddressValue

Threw(msg) == [threw |-> msg, data |-> <<>>]
Returned(d) == [threw |-> "", data |-> d]

\* encodeFunctionData: the selector, then the head (the token word and the
\* offsets of the two arrays), then each array as its length and its items,
\* one 32-byte word each.
EncodeFunctionData(sig, token, rs, as) ==
  IF ~IsAddress(token) \/ \E i \in DOMAIN rs : ~IsAddress(rs[i])
  THEN Threw("InvalidAddressError")
  ELSE IF \E i \in DOMAIN as : as[i] < 0 \/ as[i] > MaxUint
  THEN Threw("IntegerOutOfRangeError")
  ELSE Returned(<<Keccak4[sig], AddressValue[token], 96, 96 + 32 * (1 + Len(rs)),
                  Len(rs)>>
                \o [i \in DOMAIN rs |-> AddressValue[rs[i]]]
                \o <<Len(as)>> \o as)

\* Variant: an offset of the output moves with the time of the call.
getCalldataStamped(token, rs, as) ==
  IF Len(rs) # Len(as)
  THEN Threw("Recipients and amounts arrays must have the same length")
  ELSE LET e == EncodeFunctionData(BatchSendSignature, token, rs, as) IN
         IF e.threw # "" THEN e ELSE Returned([e.data EXCEPT ![3] = @ + cNow])

getBatchTransferCalldata(token, rs, as) ==
  IF Len(rs) # Len(as)
  THEN Threw("Recipients and amounts arrays must have the same length")
  ELSE EncodeFunctionData(BatchSendSignature, token, rs, as)

calculateTotalAmount(as) == SumSeq(as)

(***************************************************************************)
(* Client library: the deployment table and the dispatch adapters          *)
(* (executeBatchTransfer, ContractService.executeContractCall).            *)
(***************************************************************************)
BaseSepolia == 84532
BaseMainnet == 8453
ChainIds == {BaseSepolia, BaseMainnet}
BaseSepoliaBatch == "0xca60bFd1D0eAfDf051885221ec4DF0510ceee944"

\* BATCH_CONTRACT_ADDRESSES as the source has it, and with the mainnet entry
\* that the source holds in a comment (the zero address, until deployed).
SourceTable == (BaseSepolia :> BaseSepoliaBatch)
Tables == {SourceTable, SourceTable @@ (BaseMainnet :> Zero)}

\* BATCH_CONTRACT_ADDRESSES[chainId] || ""
getBatchContractAddress ==
  IF aChain \in DOMAIN aTable /\ aTable[aChain] # "" THEN aTable[aChain] ELSE ""

\* Variant: the zero address counts as deployed.
isDeployedNonEmpty == getBatchContractAddress # ""

isBatchContractDeployed ==
  LET address == getBatchContractAddress IN address # "" /\ address # Zero

Capabilities == {"contract.send", "wallet.sendTransaction", "account.send"}
\* What the awaited submission does: it resolves with a hash, resolves
\* without one, rejects, or never settles.
Outcomes == {"hash", "nohash", "throws", "never"}

\* Variant: the probing runs from the last capability to the first.
ProbeReversed(caps) ==
  IF "account.send" \in caps THEN "account.send"
  ELSE IF "wallet.sendTransaction" \in caps THEN "wallet.sendTransaction"
  ELSE IF "contract.send" \in caps THEN "contract.send"
  ELSE ""

\* The if / else-if chain over the host client: the capability used ("" when
\* the host has none of them).
Probe(caps) ==
  IF "contract.send" \in caps THEN "contract.send"
  ELSE IF "wallet.sendTransaction" \in caps THEN "wallet.sendTransaction"
  ELSE IF "account.send" \in caps THEN "account.send"
  ELSE ""

\* BigInt(Math.floor(a * 1_000_000)), for a USD amount given in units of
\* 10^-7 (the product is taken as exact).
ToMicro(a) == a \div 10

NoResult ==
  [success |-> FALSE, batchId |-> "", txHash |-> "", totalAmount |-> 0,
   recipientCount |-> 0, error |-> ""]

\* Variant: a failure result still counts the recipients it was given.
FailureKeepsCount(msg) ==
  [NoResult EXCEPT !.error = msg, !.recipientCount = Len(aRecipients)]

Failure(msg) == [NoResult EXCEPT !.error = msg]

MsgNotDeployed == "Batch contract not deployed on current network"
MsgMock == "SDK method not found - mock transaction"
MsgNoMethod == "No contract interaction method found in Xellar SDK"

\* The call ends here, with result r, having gone through the stages st.
AdapterReturns(r, st) ==
  /\ aPc' = "done"
  /\ aResult' = r
  /\ aStages' = st
  /\ UNCHANGED aCalls

\* The call hands the instruction to the host's transport and waits.
AdapterSubmits(cap, to, data, st) ==
  /\ aPc' = "awaiting"
  /\ aCalls' = Append(aCalls, [via |-> cap, to |-> to, data |-> data])
  /\ aStages' = st
  /\ UNCHANGED aResult

adapterInputs == <<aVia, aChain, aTable, aCaps, aOutcome, aRecipients, aAmounts>>

\* executeBatchTransfer, up to its await (lines 219-309).
ExecuteBatchTransfer ==
  /\ aPc = "start"
  /\ aVia = "executeBatchTransfer"
  /\ IF ~isBatchContractDeployed
     THEN AdapterReturns(Failure(MsgNotDeployed), <<>>)
     ELSE LET amountsBigInt == [i \in DOMAIN aAmounts |-> ToMicro(aAmounts[i])]
              validation == validateBatchTransfer(aRecipients, amountsBigInt)
              callData == getBatchTransferCalldata(Token, aRecipients, amountsBigInt)
              cap == Probe(aCaps)
          IN IF ~validation.valid
             THEN AdapterReturns(Failure(validation.error), <<"validate">>)
             ELSE IF callData.threw # ""
             THEN AdapterReturns(Failure(callData.threw), <<"validate", "encode">>)
             ELSE IF cap # ""
             THEN AdapterSubmits(cap, getBatchContractAddress, callData.data,
                                 <<"validate", "encode">>)
             ELSE AdapterReturns(
                    [success |-> TRUE, batchId |-> "batch_now", txHash |-> "0xrandom",
                     totalAmount |-> calculateTotalAmount(amountsBigInt),
                     recipientCount |-> Len(aRecipients), error |-> MsgMock],
                    <<"validate", "encode">>)
  /\ UNCHANGED <<adapterInputs, engineVars, cRecipients, cAmounts, cResult, cPc, libVars,
                 loginVars, orderVars, storesVars>>

\* ContractService.executeContractCall, up to its await (part_002, 29-87).
ExecuteContractCall ==
  /\ aPc = "start"
  /\ aVia = "executeContractCall"
  /\ LET cap == Probe(aCaps) IN
       IF cap # ""
       THEN AdapterSubmits(cap, Token, <<Keccak4["approve(address,uint256)"]>>, <<>>)
       ELSE AdapterReturns(Failure(MsgNoMethod), <<>>)
  /\ UNCHANGED <<adapterInputs, engineVars, cRecipients, cAmounts, cResult, cPc, libVars,
                 loginVars, orderVars, storesVars>>

\* The awaited submission settles: the host returns a hash, returns without
\* one, or throws; the adapter builds its result (lines 311-331; part_002,
\* 46-49, 61-64, 74-77, 88-93).  Nothing in either adapter bounds the wait:
\* a submission that never settles leaves the call at its await.
TransportSettles ==
  /\ aPc = "awaiting"
  /\ aOutcome # "never"
  /\ aPc' = "done"
  /\ LET txHash == IF aOutcome = "hash" THEN "0xtx" ELSE "" IN
       aResult' =
         IF aOutcome = "throws" THEN Failure("TransportError")
         ELSE IF aVia = "executeContractCall"
         THEN [NoResult EXCEPT !.success = TRUE, !.txHash = txHash]
         ELSE [success |-> TRUE,
               batchId |-> IF txHash # "" THEN txHash ELSE "0xhexnow",
               txHash |-> txHash,
               totalAmount |->
                 calculateTotalAmount([i \in DOMAIN aAmounts |-> ToMicro(aAmounts[i])]),
               recipientCount |-> Len(aRecipients), error |-> ""]
  /\ UNCHANGED <<aStages, aCalls, adapterInputs, engineVars, cRecipients, cAmounts,
                 cResult, cPc, libVars, loginVars, orderVars, storesVars>>

AdapterIdle ==
  /\ aVia = ""
  /\ aChain = BaseSepolia
  /\ aTable = SourceTable
  /\ aCaps = {}
  /\ aOutcome = "hash"
  /\ aRecipients = <<>>
  /\ aAmounts = <<>>
  /\ aPc = "off"
  /\ aStages = <<>>
  /\ aCalls = <<>>
  /\ aResult = NoResult

LibIdle ==
  /\ cToken = Token
  /\ cCount = 0
  /\ cOut = <<>>
  /\ cNow = 0

(***************************************************************************)
(* XellarService: login (verifyOTP, loginWithGoogle) and createWallet.     *)
(***************************************************************************)
\* null or undefined.
Null == "null"

LoginMethods == {"verifyOTP", "loginWithGoogle"}

\* The answers of client.auth.email.verify / client.auth.google.authorize:
\* a throw, an existing wallet, a new user.
AuthOutcomes ==
  {[threw |-> "AuthError", isWalletCreated |-> FALSE, walletToken |-> Null,
    refreshToken |-> Null, address |-> Null, accessToken |-> Null],
   [threw |-> "", isWalletCreated |-> TRUE, walletToken |-> "walletToken",
    refreshToken |-> "refreshToken", address |-> "0xold", accessToken |-> Null],
   [threw |-> "", isWalletCreated |-> FALSE, walletToken |-> Null,
    refreshToken |-> Null, address |-> Null, accessToken |-> "accessToken"]}

\* The answers of client.account.wallet.create: a throw (with or without a
\* message), or a response whose address list is missing (hasAddress is
\* false), empty, holds an empty address or holds an address.
WalletOutcomes ==
  {[threw |-> m, walletToken |-> Null, refreshToken |-> Null, hasAddress |-> FALSE,
    address |-> <<>>, rampableAccessToken |-> Null] : m \in {"WalletError", Null}}
  \cup
  {[threw |-> "", walletToken |-> "newWalletToken", refreshToken |-> "newRefreshToken",
    hasAddress |-> FALSE, address |-> <<>>, rampableAccessToken |-> r] :
     r \in {Null, "rampable"}}
  \cup
  {[threw |-> "", walletToken |-> "newWalletToken", refreshToken |-> "newRefreshToken",
    hasAddress |-> TRUE, address |-> a, rampableAccessToken |-> r] :
     a \in {<<>>, <<"">>, <<"0xnew">>}, r \in {Null, "rampable"}}

NoResponse ==
  [token |-> Null, refreshToken |-> Null, walletAddress |-> Null,
   isWalletCreated |-> FALSE, walletStatus |-> Null, rampableAccessToken |-> Null]

Throws(msg) == [threw |-> msg, value |-> NoResponse]
Returns(v) == [threw |-> "", value |-> v]

\* walletResponse.address && walletResponse.address.length > 0
\*   ? walletResponse.address[0].address : ""
FirstAddress(w) ==
  IF w.hasAddress /\ Len(w.address) > 0 THEN w.address[1] ELSE ""

MsgNoAddress == "Wallet created but no address returned"
MsgCreateFailed == "Failed to create wallet. Please try again later."

\* What createWallet hands its caller (lines 299-323): the wallet data, or
\* an error with the message of what went wrong.
createWallet(w) ==
  IF w.threw # ""
  THEN Throws(IF w.threw # Null THEN w.threw ELSE MsgCreateFailed)
  ELSE IF FirstAddress(w) = "" THEN Throws(MsgNoAddress)
  ELSE Returns([token |-> w.walletToken, refreshToken |-> w.refreshToken,
                walletAddress |-> FirstAddress(w), isWalletCreated |-> TRUE,
                walletStatus |-> Null, rampableAccessToken |-> w.rampableAccessToken])

\* Variant: a failed wallet creation fails the login.
AutoCreateRethrows(auth, walletData) == walletData

\* The inner try / catch of the login (lines 163-188, 223-248): the wallet
\* data become the response; a failure becomes the pending response.
AutoCreate(auth, walletData) ==
  IF walletData.threw = "" THEN walletData
  ELSE Returns([NoResponse EXCEPT !.token = auth.accessToken,
                                  !.walletStatus = "pending"])

\* verifyOTP / loginWithGoogle is called: the authentication call is awaited.
StartLogin ==
  /\ lPc = "start"
  /\ lPc' = "authenticating"
  /\ UNCHANGED <<loginMethod, sdkAuth, sdkWallet, sessionToken, refreshToken,
                 rampableAccessToken, walletAddress, lResult>>
  /\ UNCHANGED <<engineVars, cRecipients, cAmounts, cResult, cPc, libVars, adapterVars,
                 orderVars, storesVars>>

\* The authentication call settles (lines 142-164, 190-195; 202-224, 250-255).
AuthSettles ==
  /\ lPc = "authenticating"
  /\ IF sdkAuth.threw # ""
     THEN /\ lPc' = "done"
          /\ lResult' = Throws(sdkAuth.threw)
          /\ UNCHANGED <<sessionToken, refreshToken, walletAddress>>
     ELSE IF sdkAuth.isWalletCreated
     THEN /\ lPc' = "done"
          /\ sessionToken' = sdkAuth.walletToken
          /\ refreshToken' = sdkAuth.refreshToken
          /\ walletAddress' = sdkAuth.address
          /\ lResult' = Returns([NoResponse EXCEPT !.token = sdkAuth.walletToken,
                                                   !.refreshToken = sdkAuth.refreshToken,
                                                   !.walletAddress = sdkAuth.address,
                                                   !.isWalletCreated = TRUE])
     ELSE /\ lPc' = "creatingWallet"
          /\ UNCHANGED <<sessionToken, refreshToken, walletAddress, lResult>>
  /\ UNCHANGED <<loginMethod, sdkAuth, sdkWallet, rampableAccessToken>>
  /\ UNCHANGED <<engineVars, cRecipients, cAmounts, cResult, cPc, libVars, adapterVars,
                 orderVars, storesVars>>

\* account.wallet.create settles: createWallet stores what it was given
\* (lines 292-305) and returns or throws, and the login returns.
WalletSettles ==
  /\ lPc = "creatingWallet"
  /\ lPc' = "done"
  /\ LET walletData == createWallet(sdkWallet)
         out == AutoCreate(sdkAuth, walletData)
     IN /\ lResult' = out
        /\ sessionToken' =
             IF walletData.threw # "" THEN sdkAuth.accessToken ELSE sdkWallet.walletToken
        /\ refreshToken' = IF sdkWallet.threw = "" THEN sdkWallet.refreshToken
                           ELSE refreshToken
        /\ rampableAccessToken' =
             IF sdkWallet.threw = "" /\ sdkWallet.rampableAccessToken # Null
             THEN sdkWallet.rampableAccessToken ELSE rampableAccessToken
        /\ walletAddress' = IF sdkWallet.threw = "" THEN FirstAddress(sdkWallet)
                            ELSE walletAddress
  /\ UNCHANGED <<loginMethod, sdkAuth, sdkWallet>>
  /\ UNCHANGED <<engineVars, cRecipients, cAmounts, cResult, cPc, libVars, adapterVars,
                 orderVars, storesVars>>

LoginIdle ==
  /\ loginMethod = ""
  /\ sdkAuth = [threw |-> "", isWalletCreated |-> FALSE, walletToken |-> Null,
                refreshToken |-> Null, address |-> Null, accessToken |-> Null]
  /\ sdkWallet = [threw |-> "", walletToken |-> Null, refreshToken |-> Null,
                  hasAddress |-> FALSE, address |-> <<>>, rampableAccessToken |-> Null]
  /\ sessionToken = Null
  /\ refreshToken = Null
  /\ rampableAccessToken = Null
  /\ walletAddress = Null
  /\ lPc = "off"
  /\ lResult = Returns(NoResponse)

(***************************************************************************)
(* useAuthStore (auth-store.ts) and the session fields of XellarService.   *)
(* A nullable object is a sequence of at most one element.                 *)
(***************************************************************************)
NoUser == <<>>
NoExpiry == <<>>

Users == {[id |-> "u1", walletAddress |-> w, kycStatus |-> "none"] : w \in {Null, "0xw"}}
UserUpdates == {[kycStatus |-> "verified"], [walletAddress |-> "0xw"]}

\* { ...object, ...updates }
Merge(object, updates) ==
  [k \in DOMAIN object |-> IF k \in DOMAIN updates THEN updates[k] ELSE object[k]]

\* Lines 42-50.
InitialAuth ==
  [user |-> NoUser, token |-> Null, refreshToken |-> Null, tokenExpiresAt |-> NoExpiry,
   isAuthenticated |-> FALSE, isLoading |-> FALSE, otpSent |-> FALSE,
   otpEmail |-> Null, verificationToken |-> Null]

\* expiresIn ? Date.now() + (expiresIn * 1000) : null
ExpiresAt(expiresIn, now) ==
  IF expiresIn # 0 THEN <<now + expiresIn * 1000>> ELSE NoExpiry

setUser(st, u) == [st EXCEPT !.user = u, !.isAuthenticated = (u # NoUser)]

setToken(st, t, r, expiresIn, now) ==
  [st EXCEPT !.token = t, !.refreshToken = r,
             !.tokenExpiresAt = ExpiresAt(expiresIn, now)]

authSetLoading(st, b) == [st EXCEPT !.isLoading = b]

setOtpSent(st, sent, email, vt) ==
  [st EXCEPT !.otpSent = sent, !.otpEmail = email, !.verificationToken = vt]

login(st, u, t, r, expiresIn, now) ==
  [st EXCEPT !.user = <<u>>, !.token = t, !.refreshToken = r,
             !.tokenExpiresAt = ExpiresAt(expiresIn, now),
             !.isAuthenticated = TRUE, !.isLoading = FALSE, !.otpSent = FALSE,
             !.otpEmail = Null]

\* Variant: logging out keeps the user.
logoutKeepsUser(st) ==
  [st EXCEPT !.token = Null, !.refreshToken = Null,
             !.tokenExpiresAt = NoExpiry, !.isAuthenticated = FALSE,
             !.otpSent = FALSE, !.otpEmail = Null]

logout(st) ==
  [st EXCEPT !.user = NoUser, !.token = Null, !.refreshToken = Null,
             !.tokenExpiresAt = NoExpiry, !.isAuthenticated = FALSE,
             !.otpSent = FALSE, !.otpEmail = Null]

updateUser(st, updates) ==
  [st EXCEPT !.user = IF st.user # NoUser THEN <<Merge(st.user[1], updates)>>
                      ELSE NoUser]

\* XellarService.setAuthToken(token, refreshToken, undefined, walletAddress).
SetAuthToken(t, r, w) ==
  /\ sessionToken' = t
  /\ refreshToken' = r
  /\ walletAddress' = IF w # Null THEN w ELSE walletAddress
  /\ UNCHANGED rampableAccessToken

\* XellarService.clearSession.
ClearSession ==
  /\ sessionToken' = Null
  /\ refreshToken' = Null
  /\ rampableAccessToken' = Null
  /\ walletAddress' = Null

serviceVars == <<sessionToken, refreshToken, rampableAccessToken, walletAddress>>

\* The answers of client.wallet.refreshToken: a throw, or new tokens.
NoAnswer == [threw |-> "", walletToken |-> Null, refreshToken |-> Null]
RefreshAnswers ==
  {[threw |-> "RefreshError", walletToken |-> Null, refreshToken |-> Null],
   [threw |-> "", walletToken |-> "t2", refreshToken |-> "r2"]}

DefaultExpiresIn == 3600
MsgSessionExpired == "Session expired. Please login again."
NoRefresh == [threw |-> "", token |-> Null, expiresIn |-> 0]

\* What refreshAccessToken hands its caller (xellar-service.ts, 267-274).
refreshAccessToken(answer) ==
  IF answer.threw # "" THEN [NoRefresh EXCEPT !.threw = MsgSessionExpired]
  ELSE [threw |-> "", token |-> answer.walletToken, expiresIn |-> DefaultExpiresIn]

Times == 0..MaxNow
TokenArgs == {Null, "t1"}
RefreshTokenArgs == {Null, "r1"}
ExpiresInArgs == {0, DefaultExpiresIn}

\* A call of a synchronous operation of the store.  A refreshSession call
\* that had returned is no longer the last thing that happened; a logout
\* is remembered while such a call is waiting.
AuthCall(isLogout) ==
  /\ rPc' = IF rPc = "done" THEN "idle" ELSE rPc
  /\ rLogout' = (isLogout /\ rPc \in {"awaitingClient", "awaitingService"})
  /\ UNCHANGED <<rAnswer, rResponse, rReturned>>

authFrame ==
  <<engineVars, cRecipients, cAmounts, cResult, cPc, libVars, adapterVars, orderVars,
    loginMethod, sdkAuth, sdkWallet, lPc, lResult, storeVars>>

SetUser ==
  \E u \in {NoUser} \cup {<<x>> : x \in Users} :
    /\ authStore' = setUser(authStore, u)
    /\ AuthCall(FALSE)
    /\ UNCHANGED <<serviceVars, authFrame>>

SetToken ==
  \E t \in TokenArgs, r \in RefreshTokenArgs, e \in ExpiresInArgs, now \in Times :
    /\ authStore' = setToken(authStore, t, r, e, now)
    /\ IF t # Null THEN SetAuthToken(t, r, Null) ELSE UNCHANGED serviceVars
    /\ AuthCall(FALSE)
    /\ UNCHANGED authFrame

SetLoading ==
  \E b \in BOOLEAN :
    /\ authStore' = authSetLoading(authStore, b)
    /\ AuthCall(FALSE)
    /\ UNCHANGED <<serviceVars, authFrame>>

SetOtpSent ==
  \E a \in {<<TRUE, "e@x", "v1">>, <<TRUE, "e@x", Null>>, <<FALSE, Null, Null>>} :
    /\ authStore' = setOtpSent(authStore, a[1], a[2], a[3])
    /\ AuthCall(FALSE)
    /\ UNCHANGED <<serviceVars, authFrame>>

Login ==
  \E u \in Users, r \in RefreshTokenArgs, e \in ExpiresInArgs, now \in Times :
    /\ authStore' = login(authStore, u, "t1", r, e, now)
    /\ SetAuthToken("t1", r, u.walletAddress)
    /\ AuthCall(FALSE)
    /\ UNCHANGED authFrame

Logout ==
  /\ authStore' = logout(authStore)
  /\ ClearSession
  /\ AuthCall(TRUE)
  /\ UNCHANGED authFrame

UpdateUser ==
  \E updates \in UserUpdates :
    /\ authStore' = updateUser(authStore, updates)
    /\ AuthCall(FALSE)
    /\ UNCHANGED <<serviceVars, authFrame>>

\* refreshSession up to its await (lines 117-124).
RefreshSession ==
  /\ rPc \in {"idle", "done"}
  /\ rLogout' = FALSE
  /\ rResponse' = NoRefresh
  /\ IF authStore.refreshToken = Null
     THEN /\ rPc' = "done"
          /\ rReturned' = "false"
          /\ rAnswer' = NoAnswer
     ELSE /\ rPc' = "awaitingClient"
          /\ rReturned' = ""
          /\ rAnswer' \in RefreshAnswers
  /\ UNCHANGED <<authStore, serviceVars, authFrame>>

\* refreshAccessToken after its await (xellar-service.ts, 261-274).
ServiceResumes ==
  /\ rPc = "awaitingClient"
  /\ rPc' = "awaitingService"
  /\ rResponse' = refreshAccessToken(rAnswer)
  /\ IF rAnswer.threw = ""
     THEN /\ sessionToken' = rAnswer.walletToken
          /\ refreshToken' = rAnswer.refreshToken
          /\ UNCHANGED <<rampableAccessToken, walletAddress>>
     ELSE UNCHANGED serviceVars
  /\ UNCHANGED <<authStore, rAnswer, rReturned, rLogout, authFrame>>

\* refreshSession after its await (lines 126-137).
StoreResumes ==
  /\ rPc = "awaitingService"
  /\ rPc' = "done"
  /\ IF rResponse.threw = ""
     THEN /\ \E now \in Times :
               authStore' =
                 [authStore EXCEPT !.token = rResponse.token,
                                   !.tokenExpiresAt = <<now + rResponse.expiresIn * 1000>>]
          /\ rReturned' = "true"
          /\ UNCHANGED serviceVars
     ELSE /\ authStore' = logout(authStore)
          /\ ClearSession
          /\ rReturned' = "false"
  /\ UNCHANGED <<rAnswer, rResponse, rLogout, authFrame>>

AuthIdle ==
  /\ authStore = InitialAuth
  /\ rPc = "off"
  /\ rAnswer = NoAnswer
  /\ rResponse = NoRefresh
  /\ rReturned = ""
  /\ rLogout = FALSE

(***************************************************************************)
(* useRecipientStore (part_001).                                           *)
(***************************************************************************)
StoreIds == {"r1", "r2"}
RecipientRecords == {[id |-> i, isFavorite |-> f] : i \in StoreIds, f \in BOOLEAN}
RecipientUpdates == {[isFavorite |-> TRUE], [id |-> "r2"]}
NoSelection == <<>>

ListsUpTo(n) == UNION {[1..k -> RecipientRecords] : k \in 0..n}

\* Lines 46-50.
InitialStore ==
  [recipients |-> <<>>, selectedRecipient |-> NoSelection, selectedRecipients |-> <<>>,
   isBatchMode |-> FALSE, isLoading |-> FALSE]

\* list.filter((r) => r.id !== id)
WithoutId(list, id) == SelectSeq(list, LAMBDA r : r.id # id)

setRecipients(st, rs) == [st EXCEPT !.recipients = rs]

addRecipient(st, r) == [st EXCEPT !.recipients = Append(@, r)]

updateRecipient(st, id, updates) ==
  [st EXCEPT !.recipients =
     [i \in DOMAIN @ |-> IF @[i].id = id THEN Merge(@[i], updates) ELSE @[i]]]

\* Variant: only the list of recipients is filtered.
deleteFromListOnly(st, id) == [st EXCEPT !.recipients = WithoutId(@, id)]

deleteRecipient(st, id) ==
  [st EXCEPT !.recipients = WithoutId(@, id),
             !.selectedRecipient =
               IF @ # NoSelection /\ @[1].id = id THEN NoSelection ELSE @,
             !.selectedRecipients = WithoutId(@, id)]

selectRecipient(st, sel) == [st EXCEPT !.selectedRecipient = sel]

selectRecipients(st, rs) == [st EXCEPT !.selectedRecipients = rs]

toggleRecipientSelection(st, r) ==
  LET isSelected == \E i \in DOMAIN st.selectedRecipients :
                      st.selectedRecipients[i].id = r.id
  IN [st EXCEPT !.selectedRecipients =
        IF isSelected THEN WithoutId(@, r.id) ELSE Append(@, r)]

\* Variant: both selections are cleared whatever the argument.
setBatchModeClearsBoth(st, enabled) ==
  [st EXCEPT !.isBatchMode = enabled, !.selectedRecipient = NoSelection,
             !.selectedRecipients = <<>>]

setBatchMode(st, enabled) ==
  [st EXCEPT !.isBatchMode = enabled,
             !.selectedRecipient = IF enabled THEN NoSelection ELSE @,
             !.selectedRecipients = IF enabled THEN @ ELSE <<>>]

clearBatchSelection(st) == [st EXCEPT !.selectedRecipients = <<>>, !.isBatchMode = FALSE]

toggleFavorite(st, id) ==
  [st EXCEPT !.recipients =
     [i \in DOMAIN @ |->
        IF @[i].id = id THEN [@[i] EXCEPT !.isFavorite = ~@] ELSE @[i]]]

storeSetLoading(st, b) == [st EXCEPT !.isLoading = b]

NoCall == [op |-> "", id |-> "", enabled |-> FALSE]

storeFrame ==
  <<engineVars, cRecipients, cAmounts, cResult, cPc, libVars, adapterVars, loginVars,
    orderVars, authVars>>

\* A call of an operation of the store: the store holds what the operation
\* computed from the state it was called in.
StoreCall(c, st) ==
  /\ recipientStore' = st
  /\ sLast' = c
  /\ sBefore' = IF c.op = "" THEN InitialStore ELSE recipientStore
  /\ UNCHANGED storeFrame

SetRecipients ==
  \E rs \in ListsUpTo(MaxStore) : StoreCall(NoCall, setRecipients(recipientStore, rs))

AddRecipient ==
  \E r \in RecipientRecords :
    /\ Len(recipientStore.recipients) < MaxStore
    /\ StoreCall(NoCall, addRecipient(recipientStore, r))

UpdateRecipient ==
  \E id \in StoreIds, updates \in RecipientUpdates :
    StoreCall(NoCall, updateRecipient(recipientStore, id, updates))

DeleteRecipient ==
  \E id \in StoreIds :
    StoreCall([NoCall EXCEPT !.op = "deleteRecipient", !.id = id],
              deleteRecipient(recipientStore, id))

SelectRecipient ==
  \E sel \in {NoSelection} \cup {<<r>> : r \in RecipientRecords} :
    StoreCall(NoCall, selectRecipient(recipientStore, sel))

SelectRecipients ==
  \E rs \in ListsUpTo(MaxSelected) :
    StoreCall(NoCall, selectRecipients(recipientStore, rs))

ToggleRecipientSelection ==
  \E r \in RecipientRecords :
    /\ \/ Len(recipientStore.selectedRecipients) < MaxSelected
       \/ \E i \in DOMAIN recipientStore.selectedRecipients :
            recipientStore.selectedRecipients[i].id = r.id
    /\ StoreCall(NoCall, toggleRecipientSelection(recipientStore, r))

SetBatchMode ==
  \E enabled \in BOOLEAN :
    StoreCall([NoCall EXCEPT !.op = "setBatchMode", !.enabled = enabled],
              setBatchMode(recipientStore, enabled))

ClearBatchSelection == StoreCall(NoCall, clearBatchSelection(recipientStore))

ToggleFavorite ==
  \E id \in StoreIds : StoreCall(NoCall, toggleFavorite(recipientStore, id))

StoreSetLoading ==
  \E b \in BOOLEAN : StoreCall(NoCall, storeSetLoading(recipientStore, b))

StoreIdle ==
  /\ recipientStore = InitialStore
  /\ sLast = NoCall
  /\ sBefore = InitialStore

(***************************************************************************)
(* Transactions.                                                           *)
(***************************************************************************)
frameVars == <<call, sender, recipients, amounts, wAmount, snapshot>>

\* Variant: the failure is reported but the state changes are kept.
RevertKeepsState(e) ==
  /\ pc' = "Reverted"
  /\ err' = e
  /\ UNCHANGED <<bal, allow, log>>

\* A revert: every state change of the transaction is undone.
Revert(e) ==
  /\ pc' = "Reverted"
  /\ err' = e
  /\ bal' = snapshot.bal
  /\ allow' = snapshot.allow
  /\ log' = snapshot.log

\* The error the engine ends with when a token call is refused: the token's
\* own revert bubbles up, a false return becomes TransferFailed.
RefusedError == IF tokenStyle = "reverts" THEN "TokenReverted" ELSE "TransferFailed"

Begin(fn, s) ==
  /\ pc = "Idle"
  /\ nTx < MaxTx
  /\ pc' = "Received"
  /\ call' = fn
  /\ sender' = s
  /\ snapshot' = [bal |-> bal, allow |-> allow, log |-> log]
  /\ totalAmount' = 0
  /\ batchId' = NoId
  /\ idx' = 0
  /\ err' = ""
  /\ tokenCalls' = 0
  /\ UNCHANGED <<owner, bal, allow, tokenStyle, log, blockNo, nTx, clientVars>>

LargeList(n, x) == [i \in 1..n |-> x]

SubmitBatch ==
  \E s \in Senders :
    /\ Begin("batchSend", s)
    /\ wAmount' = 0
    /\ \/ \E n \in 0..MaxLen, m \in 0..MaxLen :
            \E rs \in [1..n -> RecipientIds], as \in [1..m -> AmountValues] :
              recipients' = rs /\ amounts' = as
       \/ \E n \in {MAX_RECIPIENTS, MAX_RECIPIENTS + 1} :
            recipients' = LargeList(n, "bob") /\ amounts' = LargeList(n, 1)

\* Lines 75-100: the checks, the total and the batch id.
Validate ==
  /\ pc = "Received"
  /\ call = "batchSend"
  /\ LET v == EngineValidate(recipients, amounts) IN
       IF v.err # ""
       THEN /\ Revert(v.err)
            /\ UNCHANGED <<totalAmount, batchId>>
       ELSE /\ pc' = "Validated"
            /\ totalAmount' = v.total
            /\ batchId' = BatchIdOf(sender, Len(recipients))
            /\ UNCHANGED <<bal, allow, log, err>>
  /\ UNCHANGED <<owner, tokenStyle, blockNo, nTx, idx, tokenCalls, frameVars, clientVars>>

\* Lines 102-112: the allowance check and the collecting transferFrom.
Collect ==
  /\ pc = "Validated"
  /\ IF AllowanceShort(allow[sender], totalAmount)
     THEN /\ Revert("InsufficientAllowance")
          /\ UNCHANGED tokenCalls
     ELSE /\ tokenCalls' = tokenCalls + 1
          /\ IF TransferFromOk(bal, allow, sender, Engine, totalAmount)
             THEN /\ bal' = Move(bal, sender, Engine, totalAmount)
                  /\ allow' = [allow EXCEPT ![sender] = @ - totalAmount]
                  /\ pc' = "Collected"
                  /\ UNCHANGED <<log, err>>
             ELSE Revert(RefusedError)
  /\ UNCHANGED <<owner, tokenStyle, blockNo, nTx, idx, totalAmount, batchId,
                 frameVars, clientVars>>

\* Variant: the loop counter is never incremented.
DistributeNoProgress ==
  /\ pc \in {"Collected", "Distributing"}
  /\ idx < Len(recipients)
  /\ pc' = "Distributing"
  /\ UNCHANGED <<owner, bal, allow, tokenStyle, log, blockNo, nTx, idx, err,
                 tokenCalls, totalAmount, batchId, frameVars, clientVars>>

\* Lines 115-120: one turn of the distribution loop.
Distribute ==
  /\ pc \in {"Collected", "Distributing"}
  /\ idx < Len(recipients)
  /\ tokenCalls' = tokenCalls + 1
  /\ LET i == idx + 1 IN
       IF TransferOk(bal, Engine, recipients[i], amounts[i])
       THEN /\ bal' = Move(bal, Engine, recipients[i], amounts[i])
            /\ log' = Append(log, TransferIndexed(batchId, i))
            /\ idx' = i
            /\ pc' = "Distributing"
            /\ UNCHANGED <<allow, err>>
       ELSE /\ Revert(RefusedError)
            /\ UNCHANGED idx
  /\ UNCHANGED <<owner, tokenStyle, blockNo, nTx, totalAmount, batchId,
                 frameVars, clientVars>>

\* Line 122: the loop is over; the batch event, and the call returns.
Commit ==
  /\ pc \in {"Collected", "Distributing"}
  /\ idx = Len(recipients)
  /\ log' = Append(log, BatchTransferIndexed(batchId))
  /\ pc' = "Committed"
  /\ UNCHANGED <<owner, bal, allow, tokenStyle, blockNo, nTx, totalAmount, batchId,
                 idx, err, tokenCalls, frameVars, clientVars>>

\* Lines 160-163: emergencyWithdraw, whole.
EmergencyWithdraw ==
  \E caller \in {Deployer, "alice"}, amount \in 1..MaxAmt :
    /\ Begin("emergencyWithdraw", caller)
    /\ wAmount' = amount
    /\ recipients' = <<>>
    /\ amounts' = <<>>

Withdraw ==
  /\ pc = "Received"
  /\ call = "emergencyWithdraw"
  /\ IF ~IsOwner(sender)
     THEN /\ Revert("NotOwner")
          /\ UNCHANGED tokenCalls
     ELSE /\ tokenCalls' = tokenCalls + 1
          /\ IF TransferOk(bal, Engine, sender, wAmount)
             THEN /\ bal' = Move(bal, Engine, sender, wAmount)
                  /\ pc' = "Committed"
                  /\ UNCHANGED <<allow, log, err>>
             ELSE IF tokenStyle = "reverts"
             THEN Revert("TokenReverted")
             ELSE \* the returned false is dropped
                  /\ pc' = "Committed"
                  /\ UNCHANGED <<bal, allow, log, err>>
  /\ UNCHANGED <<owner, tokenStyle, blockNo, nTx, idx, totalAmount, batchId,
                 frameVars, clientVars>>

\* The transaction is over: its call frame is gone, the next one may start.
Finish ==
  /\ pc \in {"Committed", "Reverted"}
  /\ pc' = "Idle"
  /\ nTx' = nTx + 1
  /\ call' = ""
  /\ sender' = ""
  /\ recipients' = <<>>
  /\ amounts' = <<>>
  /\ wAmount' = 0
  /\ totalAmount' = 0
  /\ batchId' = NoId
  /\ idx' = 0
  /\ err' = ""
  /\ tokenCalls' = 0
  /\ snapshot' = NoSnapshot
  /\ UNCHANGED <<owner, bal, allow, tokenStyle, log, blockNo, clientVars>>

\* A new block: block.number and block.timestamp advance.
Mine ==
  /\ pc = "Idle"
  /\ blockNo < MaxBlock
  /\ blockNo' = blockNo + 1
  /\ UNCHANGED <<owner, bal, allow, tokenStyle, log, nTx, pc, call, sender, recipients,
                 amounts, wAmount, totalAmount, batchId, idx, err, tokenCalls,
                 snapshot, clientVars>>

ClientIdle ==
  /\ cRecipients = <<>>
  /\ cAmounts = <<>>
  /\ cResult = [valid |-> FALSE, error |-> "", index |-> -1]
  /\ cPc = "off"
  /\ LibIdle
  /\ AdapterIdle
  /\ LoginIdle
  /\ OrderIdle
  /\ AuthIdle
  /\ StoreIdle

InitFrame ==
  /\ owner = Deployer
  /\ tokenStyle \in TokenStyles
  /\ log = <<>>
  /\ blockNo = 0
  /\ nTx = 0
  /\ pc = "Idle"
  /\ call = ""
  /\ sender = ""
  /\ recipients = <<>>
  /\ amounts = <<>>
  /\ wAmount = 0
  /\ totalAmount = 0
  /\ batchId = NoId
  /\ idx = 0
  /\ err = ""
  /\ tokenCalls = 0
  /\ snapshot = NoSnapshot

Ledger(aliceBal, aliceAllow) ==
  /\ bal = [h \in Holders |->
              IF h = "alice" THEN aliceBal
              ELSE IF h \in {"bob", Engine} THEN 1 ELSE 0]
  /\ allow = [h \in Holders |-> IF h = "alice" THEN aliceAllow ELSE 0]

Init ==
  /\ InitFrame
  /\ Ledger(InitBal, InitAllow)
  /\ ClientIdle

\* A sender able to fund a batch of more than MAX_RECIPIENTS recipients.
InitLimit ==
  /\ InitFrame
  /\ Ledger(MAX_RECIPIENTS + 1, MAX_RECIPIENTS + 1)
  /\ ClientIdle

Next ==
  \/ SubmitBatch
  \/ Validate
  \/ Collect
  \/ Distribute
  \/ Commit
  \/ EmergencyWithdraw
  \/ Withdraw
  \/ Finish
  \/ Mine

Spec == Init /\ [][Next]_vars

SpecLimit == InitLimit /\ [][Next]_vars

\* Invocations of batchSend, one after the other.  An invocation once
\* received is executed to its end: every step of batchSend is a bounded
\* piece of straight-line code or one turn of a loop over a finite list.
NextBatch ==
  \/ SubmitBatch
  \/ Validate
  \/ Collect
  \/ Distribute
  \/ Commit
  \/ Finish

SpecLive ==
  /\ Init
  /\ [][NextBatch]_vars
  /\ WF_vars(Validate)
  /\ WF_vars(Collect)
  /\ WF_vars(Distribute)
  /\ WF_vars(Commit)

(***************************************************************************)
(* The client validator run on one input.                                  *)
(***************************************************************************)
LargeRecipientLists ==
  UNION {{LargeList(n, "bob"), [LargeList(n, "bob") EXCEPT ![n] = Zero]} :
           n \in {ClientMaxRecipients, ClientMaxRecipients + 1}}

LargeAmountLists ==
  UNION {{LargeList(n, 1), [LargeList(n, 1) EXCEPT ![n] = 0]} :
           n \in {ClientMaxRecipients, ClientMaxRecipients + 1}}

InitClient ==
  /\ InitFrame
  /\ Ledger(InitBal, InitAllow)
  /\ cPc = "start"
  /\ cResult = [valid |-> FALSE, error |-> "", index |-> -1]
  /\ LibIdle
  /\ AdapterIdle
  /\ LoginIdle
  /\ OrderIdle
  /\ AuthIdle
  /\ StoreIdle
  /\ \/ \E n \in 0..MaxLen, m \in 0..MaxLen :
          /\ cRecipients \in [1..n -> ClientRecipientIds]
          /\ cAmounts \in [1..m -> ClientAmountValues]
     \/ /\ cRecipients \in LargeRecipientLists
        /\ cAmounts \in LargeAmountLists

RunValidate ==
  /\ cPc = "start"
  /\ cResult' = validateBatchTransfer(cRecipients, cAmounts)
  /\ cPc' = "done"
  /\ UNCHANGED <<cRecipients, cAmounts, engineVars, libVars, adapterVars, loginVars,
                 orderVars, storesVars>>

NextClient == RunValidate

SpecClient == InitClient /\ [][NextClient]_vars

(***************************************************************************)
(* The cost estimators and the encoder, called on one input.               *)
(***************************************************************************)
EncoderRecipients == {Zero, "bob", "carol", Malformed}
EncoderAmounts == {-1, 1, 2, MaxUint + 1}

InitLib ==
  /\ InitFrame
  /\ Ledger(InitBal, InitAllow)
  /\ AdapterIdle
  /\ LoginIdle
  /\ OrderIdle
  /\ AuthIdle
  /\ StoreIdle
  /\ cResult = [valid |-> FALSE, error |-> "", index |-> -1]
  /\ cOut = <<>>
  /\ cNow = 0
  /\ \/ /\ cPc = "estimate"
        /\ cCount \in 0..MaxCount
        /\ cToken = Token
        /\ cRecipients = <<>>
        /\ cAmounts = <<>>
     \/ /\ cPc = "encode"
        /\ cCount = 0
        /\ cToken \in {Token, Malformed}
        /\ \E n \in 0..MaxArgs, m \in 0..MaxArgs :
             /\ cRecipients \in [1..n -> EncoderRecipients]
             /\ cAmounts \in [1..m -> EncoderAmounts]

Calls(fn) == {i \in DOMAIN cOut : cOut[i].fn = fn}

LibCall(fn, out) ==
  /\ cOut' = Append(cOut, [fn |-> fn, out |-> out, at |-> cNow])
  /\ UNCHANGED <<cToken, cCount, cNow, cRecipients, cAmounts, cResult, cPc,
                 engineVars, adapterVars, loginVars, orderVars, storesVars>>

CallEstimateBatchGas ==
  /\ cPc = "estimate"
  /\ Calls("estimateBatchGas") = {}
  /\ LibCall("estimateBatchGas", estimateBatchGas(cCount))

CallEstimateGas ==
  /\ cPc = "estimate"
  /\ Calls("estimateGas") = {}
  /\ LibCall("estimateGas", estimateGas(cCount))

CallEncode ==
  /\ cPc = "encode"
  /\ Cardinality(Calls("getBatchTransferCalldata")) < 2
  /\ LibCall("getBatchTransferCalldata",
             getBatchTransferCalldata(cToken, cRecipients, cAmounts))

Tick ==
  /\ cPc \in {"estimate", "encode"}
  /\ cNow < MaxNow
  /\ cNow' = cNow + 1
  /\ UNCHANGED <<cToken, cCount, cOut, cRecipients, cAmounts, cResult, cPc,
                 engineVars, adapterVars, loginVars, orderVars, storesVars>>

NextLib ==
  \/ CallEstimateBatchGas
  \/ CallEstimateGas
  \/ CallEncode
  \/ Tick

SpecLib == InitLib /\ [][NextLib]_vars

(***************************************************************************)
(* The dispatch adapters, called once on one host client.                  *)
(***************************************************************************)
AdapterRecipients == {Zero, "bob", Malformed}
\* USD amounts in units of 10^-7: nothing, half a micro-dollar, one, two.
AdapterAmounts == {0, 5, 10, 20}

InitAdapter ==
  /\ InitFrame
  /\ Ledger(InitBal, InitAllow)
  /\ cRecipients = <<>>
  /\ cAmounts = <<>>
  /\ cResult = [valid |-> FALSE, error |-> "", index |-> -1]
  /\ cPc = "off"
  /\ LibIdle
  /\ LoginIdle
  /\ OrderIdle
  /\ AuthIdle
  /\ StoreIdle
  /\ aPc = "start"
  /\ aStages = <<>>
  /\ aCalls = <<>>
  /\ aResult = NoResult
  /\ aChain \in ChainIds
  /\ aTable \in Tables
  /\ aCaps \in SUBSET Capabilities
  /\ aOutcome \in Outcomes
  /\ \/ /\ aVia = "executeBatchTransfer"
        /\ \E n \in 0..MaxArgs, m \in 0..MaxArgs :
             /\ aRecipients \in [1..n -> AdapterRecipients]
             /\ aAmounts \in [1..m -> AdapterAmounts]
     \/ /\ aVia = "executeContractCall"
        /\ aRecipients = <<>>
        /\ aAmounts = <<>>

NextAdapter ==
  \/ ExecuteBatchTransfer
  \/ ExecuteContractCall
  \/ TransportSettles

SpecAdapter == InitAdapter /\ [][NextAdapter]_vars

\* The JavaScript event loop runs every continuation that is ready: a call
\* that can take a step takes it.
SpecAdapterLive == SpecAdapter /\ WF_vars(NextAdapter)

(***************************************************************************)
(* One login on a fresh XellarService.                                     *)
(***************************************************************************)
InitLogin ==
  /\ InitFrame
  /\ Ledger(InitBal, InitAllow)
  /\ cRecipients = <<>>
  /\ cAmounts = <<>>
  /\ cResult = [valid |-> FALSE, error |-> "", index |-> -1]
  /\ cPc = "off"
  /\ LibIdle
  /\ AdapterIdle
  /\ OrderIdle
  /\ AuthIdle
  /\ StoreIdle
  /\ loginMethod \in LoginMethods
  /\ sdkAuth \in AuthOutcomes
  /\ sdkWallet \in WalletOutcomes
  /\ sessionToken = Null
  /\ refreshToken = Null
  /\ rampableAccessToken = Null
  /\ walletAddress = Null
  /\ lPc = "start"
  /\ lResult = Returns(NoResponse)

NextLogin ==
  \/ StartLogin
  \/ AuthSettles
  \/ WalletSettles

SpecLogin == InitLogin /\ [][NextLogin]_vars

(***************************************************************************)
(* Two batchSend invocations submitted concurrently: the substrate         *)
(* executes them one after the other, in one order or in the other.        *)
(***************************************************************************)
OrderSenders == {"alice", "bob"}
OrderRecipients == {"alice", "bob", "carol", "dave"}

\* The amounts of the planned batches: the smallest and the largest.
OrderAmounts == {1, MaxAmt}

PlannedBatches(senders) ==
  UNION {{[sender |-> s, recipients |-> rs, amounts |-> as] :
            s \in senders, rs \in [1..n -> OrderRecipients], as \in [1..n -> OrderAmounts]} :
         n \in 1..MaxLen}

InitOrder ==
  /\ InitFrame
  /\ tokenStyle = "returnsFalse"
  /\ bal = [h \in Holders |->
              IF h = "alice" THEN InitBal ELSE IF h \in {"bob", Engine} THEN 1 ELSE 0]
  /\ allow = [h \in Holders |-> IF h \in OrderSenders THEN InitAllow ELSE 0]
  /\ cRecipients = <<>>
  /\ cAmounts = <<>>
  /\ cResult = [valid |-> FALSE, error |-> "", index |-> -1]
  /\ cPc = "off"
  /\ LibIdle
  /\ AdapterIdle
  /\ LoginIdle
  /\ AuthIdle
  /\ StoreIdle
  /\ oX \in PlannedBatches({"alice"})
  /\ oY \in PlannedBatches(OrderSenders)
  /\ oXY = NoOrder
  /\ oYX = NoOrder
  /\ oPc = "submitted"

\* The substrate executes oX, then oY.
ExecuteXY ==
  /\ oPc = "submitted"
  /\ oXY' = InOrder([bal |-> bal, allow |-> allow], oX, oY)
  /\ oPc' = "one order"
  /\ UNCHANGED <<oX, oY, oYX, engineVars, cRecipients, cAmounts, cResult, cPc,
                 libVars, adapterVars, loginVars, storesVars>>

\* From the same ledger, the substrate executes oY, then oX.
ExecuteYX ==
  /\ oPc = "one order"
  /\ oYX' = InOrder([bal |-> bal, allow |-> allow], oY, oX)
  /\ oPc' = "both orders"
  /\ UNCHANGED <<oX, oY, oXY, engineVars, cRecipients, cAmounts, cResult, cPc,
                 libVars, adapterVars, loginVars, storesVars>>

NextOrder ==
  \/ ExecuteXY
  \/ ExecuteYX

SpecOrder == InitOrder /\ [][NextOrder]_vars

(***************************************************************************)
(* The auth store of a fresh page, its operations called in any order, one *)
(* refreshSession call in flight at a time.                                *)
(***************************************************************************)
InitAuth ==
  /\ InitFrame
  /\ tokenStyle = "reverts"
  /\ Ledger(InitBal, InitAllow)
  /\ cRecipients = <<>>
  /\ cAmounts = <<>>
  /\ cResult = [valid |-> FALSE, error |-> "", index |-> -1]
  /\ cPc = "off"
  /\ LibIdle
  /\ AdapterIdle
  /\ LoginIdle
  /\ OrderIdle
  /\ StoreIdle
  /\ authStore = InitialAuth
  /\ rPc = "idle"
  /\ rAnswer = NoAnswer
  /\ rResponse = NoRefresh
  /\ rReturned = ""
  /\ rLogout = FALSE

NextAuth ==
  \/ SetUser
  \/ SetToken
  \/ SetLoading
  \/ SetOtpSent
  \/ Login
  \/ Logout
  \/ UpdateUser
  \/ RefreshSession
  \/ ServiceResumes
  \/ StoreResumes

SpecAuth == InitAuth /\ [][NextAuth]_vars

(***************************************************************************)
(* The recipient store of a fresh page, its operations called in any       *)
(* order.                                                                  *)
(***************************************************************************)
NextStore ==
  \/ SetRecipients
  \/ AddRecipient
  \/ UpdateRecipient
  \/ DeleteRecipient
  \/ SelectRecipient
  \/ SelectRecipients
  \/ ToggleRecipientSelection
  \/ SetBatchMode
  \/ ClearBatchSelection
  \/ ToggleFavorite
  \/ StoreSetLoading

InitRecipients ==
  /\ Init
  /\ tokenStyle = "reverts"

SpecRecipients == InitRecipients /\ [][NextStore]_vars

(***************************************************************************)
(* Properties.                                                             *)
(***************************************************************************)
InBatch == call = "batchSend"
InWithdraw == call = "emergencyWithdraw"

\* A batch the engine's checks let through (stated from the data model, not
\* from EngineValidate).
WellFormed(rs, as) ==
  /\ Len(rs) = Len(as)
  /\ Len(rs) >= 1
  /\ \A i \in 1..Len(rs) : rs[i] # Zero /\ as[i] > 0
  /\ SumSeq(as) <= MaxUint

LedgerUntouched == bal = snapshot.bal /\ allow = snapshot.allow /\ log = snapshot.log

\* What account h received from the batch: the amounts paired with it.
Received(h) ==
  LET hits == {i \in 1..Len(recipients) : recipients[i] = h} IN
    SumOver([i \in hits |-> amounts[i]], hits)

\* C1 - Atomicity: a batchSend that failed at any step (a validation check,
\* the allowance check, the collecting transferFrom, a disbursement at any
\* index) leaves every balance, every allowance and the event log as they
\* were before it.
C1_Atomicity == (InBatch /\ pc = "Reverted") => LedgerUntouched

\* A batch that failed after its first recipient had been paid.
C1_Witness ==
  InBatch /\ pc = "Reverted" /\ idx >= 1 /\ err \in {"TransferFailed", "TokenReverted"}

\* C2 as stated - for every committed batch the sender's balance falls by
\* the sum of the amounts and the recipients' balances rise by it in total.
C2_ConservationAsStated ==
  (InBatch /\ pc = "Committed") =>
    LET R == Range(recipients) IN
      /\ snapshot.bal[sender] - bal[sender] = SumSeq(amounts)
      /\ SumOver([r \in R |-> bal[r] - snapshot.bal[r]], R) = SumSeq(amounts)

\* C2 amended - for every committed batch the amount collected is the sum
\* of the amounts, every account's balance (the holding identity's too)
\* changes by what it received as a recipient minus, for the sender, the
\* amount collected, and the equations of the claim hold whenever neither
\* the sender nor the holding identity is among the recipients.
C2_Conservation ==
  (InBatch /\ pc = "Committed") =>
    LET R == Range(recipients) IN
      /\ totalAmount = SumSeq(amounts)
      /\ \A h \in Holders :
           bal[h] - snapshot.bal[h] =
             Received(h) - (IF h = sender THEN totalAmount ELSE 0)
      /\ (sender \notin R /\ Engine \notin R) =>
           /\ snapshot.bal[sender] - bal[sender] = SumSeq(amounts)
           /\ SumOver([r \in R |-> bal[r] - snapshot.bal[r]], R) = SumSeq(amounts)

\* A committed batch of two different recipients, neither of them the
\* sender or the holding identity.
C2_Witness ==
  /\ InBatch /\ pc = "Committed"
  /\ Len(recipients) = 2 /\ recipients[1] # recipients[2]
  /\ sender \notin Range(recipients) /\ Engine \notin Range(recipients)

\* C3 - Allowance gate: a batch gets past collection only if the sender's
\* allowance toward the engine is at least the sum of the amounts; a
\* well-formed batch whose sum exceeds the allowance reverts with
\* InsufficientAllowance, with no token transfer attempted and no balance
\* moved.
C3_AllowanceGate ==
  InBatch =>
    /\ pc \in {"Collected", "Distributing", "Committed"} =>
         snapshot.allow[sender] >= SumSeq(amounts)
    /\ (pc = "Reverted" /\ WellFormed(recipients, amounts)
          /\ snapshot.allow[sender] < SumSeq(amounts)) =>
         (err = "InsufficientAllowance" /\ tokenCalls = 0 /\ LedgerUntouched)

\* A well-formed batch rejected for its allowance although the sender's
\* balance would have covered it.
C3_Witness ==
  /\ InBatch /\ pc = "Reverted" /\ err = "InsufficientAllowance"
  /\ WellFormed(recipients, amounts)
  /\ snapshot.allow[sender] < SumSeq(amounts)

\* C4 - Batch-size limit in the engine: a batch of more than MAX_RECIPIENTS
\* recipients never commits.
C4_EngineEnforcesLimit ==
  (InBatch /\ Len(recipients) > MAX_RECIPIENTS) => pc # "Committed"

\* The name the specification gives an error of the engine.
DefectOf(e) ==
  CASE e = "ArraysLengthMismatch" -> "ArityMismatch"
    [] e = "ZeroAddress" -> "InvalidRecipient"
    [] e = "ZeroAmount" -> "InvalidAmount"
    [] OTHER -> e

\* The name the specification gives a message of the client validator.
DefectOfMsg(m) ==
  CASE m = MsgLength -> "ArityMismatch"
    [] m = MsgEmpty -> "EmptyBatch"
    [] m = MsgTooMany -> "TooManyRecipients"
    [] m = MsgRecipient -> "InvalidRecipient"
    [] m = MsgAmount -> "InvalidAmount"
    [] OTHER -> m

\* The structural defects a batch has.
Defects(rs, as) ==
  {d \in {"ArityMismatch", "EmptyBatch", "TooManyRecipients", "InvalidRecipient",
          "InvalidAmount"} :
     \/ d = "ArityMismatch" /\ Len(rs) # Len(as)
     \/ d = "EmptyBatch" /\ Len(rs) = 0
     \/ d = "TooManyRecipients" /\ Len(rs) > ClientMaxRecipients
     \/ d = "InvalidRecipient" /\ \E i \in 1..Len(rs) : ClientBadRecipient(rs[i])
     \/ d = "InvalidAmount" /\ \E i \in 1..Len(as) : ClientBadAmount(as[i])}

\* C5 - Validation completeness of the client validator: a batch with any
\* structural defect (lists of different lengths, no recipient, more than
\* 200 recipients, an empty or zero recipient, an amount that is not
\* positive) is rejected with the message of a defect it has, a message
\* that carries an index pointing at an offending position; a batch with no
\* defect, of 1 to 200 recipients, is accepted without an error.
C5_ValidationComplete ==
  cPc = "done" =>
    LET D == Defects(cRecipients, cAmounts) IN
      /\ D # {} =>
           /\ ~cResult.valid
           /\ DefectOfMsg(cResult.error) \in D
           /\ cResult.error = MsgRecipient =>
                ClientBadRecipient(cRecipients[cResult.index + 1])
           /\ cResult.error = MsgAmount =>
                ClientBadAmount(cAmounts[cResult.index + 1])
      /\ D = {} =>
           /\ Len(cRecipients) \in 1..ClientMaxRecipients
           /\ cResult = Valid

\* A well-formed batch of exactly 200 recipients was accepted.
C5_Witness ==
  /\ cPc = "done"
  /\ Len(cRecipients) = ClientMaxRecipients
  /\ cResult.valid

\* C6 as stated - the lengths are compared first, so lists of different
\* lengths always give ArityMismatch, and a zero recipient at any index is
\* reported in preference to a zero amount at any index.
C6_OrderAsStated ==
  cPc = "done" =>
    /\ Len(cRecipients) # Len(cAmounts) => cResult.error = MsgLength
    /\ (/\ Len(cRecipients) = Len(cAmounts)
        /\ Len(cRecipients) \in 1..ClientMaxRecipients
        /\ \E i \in 1..Len(cRecipients) : ClientBadRecipient(cRecipients[i])) =>
         cResult.error = MsgRecipient

\* The first index at which the recipient or the amount is bad (0: none).
FirstBad(rs, as) ==
  LET bad == {i \in 1..Len(rs) : ClientBadRecipient(rs[i]) \/ ClientBadAmount(as[i])} IN
    IF bad = {} THEN 0 ELSE CHOOSE i \in bad : \A j \in bad : i <= j

\* C6 amended - the validator reports the first failing check in the order
\* (1) at least one recipient, (2) equal lengths, (3) at most 200
\* recipients, (4) index by index in ascending order, the recipient and
\* then the amount of that index: so an empty recipient list gives
\* EmptyBatch even when the lengths differ, and a bad amount at an index is
\* reported in preference to a bad recipient at a later index.
C6_ValidationOrder ==
  cPc = "done" =>
    LET rs == cRecipients
        as == cAmounts
    IN IF Len(rs) = 0 THEN cResult = Invalid(MsgEmpty, -1)
       ELSE IF Len(rs) # Len(as) THEN cResult = Invalid(MsgLength, -1)
       ELSE IF Len(rs) > ClientMaxRecipients THEN cResult = Invalid(MsgTooMany, -1)
       ELSE LET k == FirstBad(rs, as) IN
              /\ k = 0 => cResult = Valid
              /\ (k > 0 /\ ClientBadRecipient(rs[k])) =>
                   cResult = Invalid(MsgRecipient, k - 1)
              /\ (k > 0 /\ ~ClientBadRecipient(rs[k])) =>
                   cResult = Invalid(MsgAmount, k - 1)

\* A bad amount reported although a later recipient is the zero address.
C6_Witness ==
  /\ cPc = "done"
  /\ cResult.error = MsgAmount
  /\ \E j \in 1..Len(cRecipients) : j > cResult.index + 1 /\ cRecipients[j] = Zero

\* C7 - Engine-side errors name the defect: a batch the engine rejects for
\* its structure reverts with the error of a defect the batch has (an empty
\* batch with EmptyBatch), and the client validator classifies it the same
\* way.
C7_EngineErrorNamesDefect ==
  (InBatch /\ pc = "Reverted"
     /\ err \in {"ArraysLengthMismatch", "ZeroAddress", "ZeroAmount"}) =>
    /\ DefectOf(err) \in Defects(recipients, amounts)
    /\ (Len(recipients) = 0 /\ Len(amounts) = 0) => DefectOf(err) = "EmptyBatch"
    /\ DefectOfMsg(validateBatchTransfer(recipients, amounts).error) = DefectOf(err)

\* C8 - Authorization gate, rejection: the owner is the deployer in every
\* state, and emergencyWithdraw called by anyone else reverts with NotOwner
\* before any token call, leaving the ledger as it was.
C8_OwnerGate ==
  /\ owner = Deployer
  /\ (InWithdraw /\ pc \in {"Committed", "Reverted"} /\ sender # owner) =>
       (pc = "Reverted" /\ err = "NotOwner" /\ tokenCalls = 0 /\ LedgerUntouched)

\* A stranger asked for tokens the engine does hold, and was refused.
C8_Witness ==
  /\ InWithdraw /\ pc = "Reverted" /\ sender # owner
  /\ wAmount <= snapshot.bal[Engine]

\* C9 - Authorization gate, success: an emergencyWithdraw by the owner that
\* returns normally has moved exactly the amount from the holding identity
\* to the owner.
C9_WithdrawMovesAmount ==
  (InWithdraw /\ pc = "Committed") =>
    /\ sender = owner
    /\ bal[Engine] = snapshot.bal[Engine] - wAmount
    /\ bal[owner] = snapshot.bal[owner] + wAmount

\* C10 - Event record: a committed batch of N recipients has appended to
\* the log N transfer events, the i-th carrying recipients[i] and
\* amounts[i], then one batch event with the sum of the amounts and N, all
\* with the batch id of the call; what was in the log before is untouched.
C10_EventRecord ==
  (InBatch /\ pc = "Committed") =>
    LET n == Len(recipients)
        old == Len(snapshot.log)
    IN /\ Len(log) = old + n + 1
       /\ SubSeq(log, 1, old) = snapshot.log
       /\ batchId # NoId
       /\ \A i \in 1..n :
            log[old + i] = [event |-> "TransferIndexed", batchId |-> batchId,
                            recipient |-> recipients[i], amount |-> amounts[i]]
       /\ log[old + n + 1] =
            [event |-> "BatchTransferIndexed", batchId |-> batchId, token |-> Token,
             sender |-> sender, totalAmount |-> SumSeq(amounts), recipientCount |-> n]

\* A second committed batch, of two different recipients.
C10_Witness ==
  /\ InBatch /\ pc = "Committed"
  /\ Len(recipients) = 2 /\ recipients[1] # recipients[2]
  /\ snapshot.log # <<>>

\* The batch events of the log: one per committed batchSend.
BatchEvents == {i \in DOMAIN log : log[i].event = "BatchTransferIndexed"}

\* C11 - BatchId uniqueness: no two committed batchSend invocations (two by
\* the same sender, for the same token and the same recipient count, in the
\* same block with the same timestamp included) carry the same batch id in
\* their batch events.
C11_BatchIdUnique ==
  \A i \in BatchEvents : \A j \in BatchEvents :
    i # j => log[i].batchId # log[j].batchId

\* The positions of the log where recipient r was paid by the running batch.
PaidTo(r) ==
  {k \in (Len(snapshot.log) + 1)..Len(log) :
     log[k].event = "TransferIndexed" /\ log[k].recipient = r}

HasDuplicate(rs) == \E i \in DOMAIN rs : \E j \in DOMAIN rs : i # j /\ rs[i] = rs[j]

\* C12 as stated - a committed batch that lists a recipient twice passed
\* both validations, made one disbursement and one transfer event per
\* index, and left that recipient's balance higher by the sum of both
\* amounts.
C12_DuplicatesAsStated ==
  (InBatch /\ pc = "Committed") =>
    \A i \in DOMAIN recipients : \A j \in DOMAIN recipients :
      (i < j /\ recipients[i] = recipients[j]) =>
        /\ validateBatchTransfer(recipients, amounts).valid
        /\ tokenCalls = 1 + Len(recipients)
        /\ Cardinality(PaidTo(recipients[i])) = 2
        /\ bal[recipients[i]] - snapshot.bal[recipients[i]] = amounts[i] + amounts[j]

\* C12 amended - a batch that lists a recipient at several indices passes
\* both validations when it has no other defect; once committed it has
\* made one disbursement and one transfer event per index, each event with
\* the amount of its index, and the recipient's balance has changed by the
\* sum of the amounts listed for it, less the amount collected when the
\* recipient is the sender of the batch.
C12_Duplicates ==
  (InBatch /\ pc = "Committed" /\ HasDuplicate(recipients)) =>
    /\ validateBatchTransfer(recipients, amounts).valid
    /\ tokenCalls = 1 + Len(recipients)
    /\ \A r \in Range(recipients) :
         LET hits == {i \in DOMAIN recipients : recipients[i] = r} IN
           /\ Cardinality(PaidTo(r)) = Cardinality(hits)
           /\ \A i \in hits : log[Len(snapshot.log) + i].amount = amounts[i]
           /\ bal[r] - snapshot.bal[r] =
                SumOver([i \in hits |-> amounts[i]], hits)
                  - (IF r = sender THEN totalAmount ELSE 0)

\* A committed batch that paid the same third party twice.
C12_Witness ==
  /\ InBatch /\ pc = "Committed"
  /\ Len(recipients) = 2 /\ recipients[1] = recipients[2]
  /\ recipients[1] \notin {sender, Engine}

\* The batch a call of executeBatchTransfer was given gets as far as the
\* submission: the contract is deployed, the lists pass the validator and
\* the encoder takes them.
MicroAmounts == [i \in DOMAIN aAmounts |-> ToMicro(aAmounts[i])]

Submittable ==
  /\ aChain \in DOMAIN aTable
  /\ aTable[aChain] \notin {"", Zero}
  /\ validateBatchTransfer(aRecipients, MicroAmounts).valid
  /\ \A i \in DOMAIN aRecipients : IsAddress(aRecipients[i])

\* C13 - Missing capability is an error: a call of a dispatch adapter on a
\* host client that exposes none of the known submission capabilities ends
\* with a failure result, with no transaction hash and no batch identifier.
C13_NoCapabilityIsError ==
  (aPc = "done" /\ aCaps = {}) =>
    (~aResult.success /\ aResult.txHash = "" /\ aResult.batchId = "")

\* C14 - Deployment gate: isBatchContractDeployed is true exactly when the
\* table holds a non-empty, non-zero address for the current chain, and a
\* call of executeBatchTransfer made when it is false returns the
\* not-deployed failure without validating, encoding or submitting
\* anything.
C14_DeploymentGate ==
  LET configured == aChain \in DOMAIN aTable /\ aTable[aChain] \notin {"", Zero} IN
    /\ isBatchContractDeployed <=> configured
    /\ (aVia = "executeBatchTransfer" /\ ~configured) =>
         /\ aPc \in {"start", "done"}
         /\ aStages = <<>>
         /\ aCalls = <<>>
         /\ aPc = "done" => aResult = Failure(MsgNotDeployed)

\* A valid batch on a chain whose entry is the zero address, with a host
\* able to submit it, was turned away.
C14_Witness ==
  /\ aVia = "executeBatchTransfer" /\ aPc = "done"
  /\ aChain \in DOMAIN aTable /\ aTable[aChain] = Zero
  /\ aCaps # {}
  /\ validateBatchTransfer(aRecipients, MicroAmounts).valid

Rank ==
  ("contract.send" :> 1) @@ ("wallet.sendTransaction" :> 2) @@ ("account.send" :> 3)

FirstPresent(caps) == CHOOSE c \in caps : \A d \in caps : Rank[c] <= Rank[d]

\* C15 - Ordered capability probing: a call of a dispatch adapter on a host
\* that exposes at least one capability never submits more than once; when
\* it gets as far as submitting, it submits exactly once, through the
\* capability that comes first in the order contract.send,
\* wallet.sendTransaction, account.send, and what it submits is the encoded
\* instruction addressed to the configured contract; when that submission
\* throws, the call fails without trying another capability.
C15_OrderedProbing ==
  /\ Len(aCalls) <= 1
  /\ \A i \in DOMAIN aCalls : aCalls[i].via = FirstPresent(aCaps)
  /\ (aVia = "executeBatchTransfer" /\ aCalls # <<>>) =>
       /\ aCalls[1].to = aTable[aChain]
       /\ aCalls[1].data =
            getBatchTransferCalldata(Token, aRecipients, MicroAmounts).data
  /\ (aPc = "done" /\ aCaps # {}
        /\ (aVia = "executeBatchTransfer" => Submittable)) =>
       /\ Len(aCalls) = 1
       /\ aOutcome = "throws" => ~aResult.success
       /\ aOutcome # "throws" => aResult.success

\* The host exposes the two lower capabilities, the submission through the
\* first of them threw, and the call ended.
C15_Witness ==
  /\ aPc = "done"
  /\ aCaps = {"wallet.sendTransaction", "account.send"}
  /\ aOutcome = "throws"
  /\ Len(aCalls) = 1
  /\ aVia = "executeBatchTransfer"

Estimates == Calls("estimateBatchGas") \cup Calls("estimateGas")

\* C16 - Cost estimate formula: the client's estimateBatchGas and the
\* engine's estimateGas both return 50000 + 35000 * n for the recipient
\* count n they are asked about, so 50000 for n = 0, the same value as each
\* other, and 35000 less than either returns for n + 1.
C16_CostEstimate ==
  \A i \in Estimates :
    /\ cOut[i].out = 50000 + 35000 * cCount
    /\ cCount = 0 => cOut[i].out = 50000
    /\ estimateBatchGas(cCount + 1) = cOut[i].out + 35000
    /\ estimateGas(cCount + 1) = cOut[i].out + 35000
    /\ \A j \in Estimates : cOut[j].out = cOut[i].out

\* Both estimators were asked about a full batch.
C16_Witness ==
  /\ cCount = MAX_RECIPIENTS
  /\ Calls("estimateBatchGas") # {}
  /\ Calls("estimateGas") # {}

Encodings == Calls("getBatchTransferCalldata")

WalletCreationFails ==
  \/ sdkWallet.threw # ""
  \/ ~sdkWallet.hasAddress
  \/ sdkWallet.address = <<>>
  \/ sdkWallet.address[1] = ""

\* C18 - Login is never blocked by wallet creation: a login (verifyOTP or
\* loginWithGoogle) whose authentication succeeded with isWalletCreated =
\* false and whose automatic wallet creation failed, by a throw or by a
\* response without an address, returns a response with the access token
\* as token, isWalletCreated = false and walletStatus = "pending"; a login
\* throws only when its authentication call threw.
C18_LoginNotBlocked ==
  lPc = "done" =>
    /\ (sdkAuth.threw = "" /\ ~sdkAuth.isWalletCreated /\ WalletCreationFails) =>
         /\ lResult.threw = ""
         /\ lResult.value.token = sdkAuth.accessToken
         /\ ~lResult.value.isWalletCreated
         /\ lResult.value.walletStatus = "pending"
    /\ lResult.threw # "" => sdkAuth.threw # ""

\* A new user logged in although the wallet response held no address.
C18_Witness ==
  /\ lPc = "done"
  /\ sdkAuth.threw = "" /\ ~sdkAuth.isWalletCreated
  /\ sdkWallet.threw = "" /\ sdkWallet.hasAddress /\ sdkWallet.address = <<>>
  /\ lResult.value.walletStatus = "pending"

\* The step-by-step transaction and the function agree: a finished
\* batchSend has left what BatchEffect computes from the ledger it started
\* on.
EffectAgreesWithSteps ==
  (InBatch /\ pc \in {"Committed", "Reverted"}) =>
    LET e == BatchEffect([bal |-> snapshot.bal, allow |-> snapshot.allow],
                         sender, recipients, amounts)
    IN /\ e.committed <=> pc = "Committed"
       /\ e.err = err
       /\ e.bal = bal
       /\ e.allow = allow
       /\ e.committed => e.total = totalAmount

Start == [bal |-> bal, allow |-> allow]

Alone(p) == BatchEffect(Start, p.sender, p.recipients, p.amounts)

\* Two batches of one sender, each within the allowance, together beyond it.
RacingPair ==
  /\ oPc = "both orders"
  /\ oX.sender = oY.sender
  /\ SumSeq(oX.amounts) <= allow[oX.sender]
  /\ SumSeq(oY.amounts) <= allow[oX.sender]
  /\ SumSeq(oX.amounts) + SumSeq(oY.amounts) > allow[oX.sender]

\* In this order exactly one of the two committed, the other was rejected
\* with InsufficientAllowance and moved nothing, and no more than the
\* allowance was collected.
OneCommits(o, s) ==
  /\ o.first.committed # o.second.committed
  /\ ~o.first.committed =>
       (o.first.err = "InsufficientAllowance" /\ o.first.bal = bal)
  /\ ~o.second.committed =>
       (o.second.err = "InsufficientAllowance" /\ o.second.bal = o.first.bal)
  /\ o.first.total + o.second.total <= allow[s]
  /\ o.second.allow[s] >= 0

\* C19 as stated - of two batches of one sender, each within the allowance
\* and together beyond it, exactly one commits in either order and the
\* other is rejected with InsufficientAllowance.
C19_RaceAsStated ==
  RacingPair => (OneCommits(oXY, oX.sender) /\ OneCommits(oYX, oX.sender))

\* C19 amended - of two batches of one sender, each within the allowance
\* and together beyond it, each of which would commit if it were executed
\* alone, the one executed first commits and the other is rejected with
\* InsufficientAllowance, with no balance moved; in neither order is more
\* than the allowance collected from the sender.  (Without that proviso
\* the batch executed first may fail for another reason, the balance or a
\* refused recipient, and the other one commits or fails likewise.)
C19_AllowanceRace ==
  RacingPair =>
    /\ \A o \in {oXY, oYX} :
         /\ o.first.total + o.second.total <= allow[oX.sender]
         /\ o.second.allow[oX.sender] >= 0
         /\ ~o.first.committed => (o.first.bal = bal /\ o.first.allow = allow)
         /\ ~o.second.committed =>
              (o.second.bal = o.first.bal /\ o.second.allow = o.first.allow)
    /\ (Alone(oX).committed /\ Alone(oY).committed) =>
         \A o \in {oXY, oYX} :
           /\ o.first.committed
           /\ ~o.second.committed
           /\ o.second.err = "InsufficientAllowance"

\* Two different batches of one sender, each good on its own, raced.
C19_Witness ==
  /\ RacingPair
  /\ oX # oY
  /\ Alone(oX).committed /\ Alone(oY).committed
  /\ oXY.first.committed /\ oYX.first.committed

\* The same outcome for each invocation and the same final ledger in both
\* orders.
SameEitherWay ==
  /\ oXY.first.committed = oYX.second.committed
  /\ oXY.first.err = oYX.second.err
  /\ oXY.second.committed = oYX.first.committed
  /\ oXY.second.err = oYX.first.err
  /\ oXY.second.bal = oYX.second.bal
  /\ oXY.second.allow = oYX.second.allow

\* C20 as stated - two invocations by different senders have the same
\* outcomes and leave the same balances whichever order they are executed
\* in.
C20_IsolationAsStated ==
  (oPc = "both orders" /\ oX.sender # oY.sender) => SameEitherWay

\* C20 amended - two invocations by different senders, neither of whom is
\* a recipient of the other's batch, have the same outcomes (committed or
\* reverted, and with which error) and leave the same balances and
\* allowances whichever order they are executed in.  (A sender who is paid
\* by the other batch may be able to fund a batch after it that they could
\* not fund before it.)
C20_Isolation ==
  (/\ oPc = "both orders"
   /\ oX.sender # oY.sender
   /\ oX.sender \notin Range(oY.recipients)
   /\ oY.sender \notin Range(oX.recipients)) => SameEitherWay

\* Two committed batches of different senders that share a recipient.
C20_Witness ==
  /\ oPc = "both orders"
  /\ oX.sender # oY.sender
  /\ oX.sender \notin Range(oY.recipients)
  /\ oY.sender \notin Range(oX.recipients)
  /\ Range(oX.recipients) \cap Range(oY.recipients) # {}
  /\ oXY.first.committed /\ oXY.second.committed

\* C21 - Escrow cannot be drained by batches: at every step of a batchSend,
\* and when it has committed or reverted, the holding identity's balance is
\* at least what it was when the invocation was received (so a sequence of
\* batches never lowers it); the only transaction that leaves the holding
\* identity with less than it had is a committed emergencyWithdraw called
\* by the owner.
C21_EscrowNotDrained ==
  /\ InBatch => bal[Engine] >= snapshot.bal[Engine]
  /\ (pc # "Idle" /\ bal[Engine] < snapshot.bal[Engine]) =>
       (InWithdraw /\ sender = owner /\ pc = "Committed")

\* A committed batch of two recipients while the holding identity held
\* tokens of its own, which are still there.
C21_Witness ==
  /\ InBatch /\ pc = "Committed" /\ Len(recipients) = 2
  /\ Engine \notin Range(recipients)
  /\ snapshot.bal[Engine] >= 1
  /\ bal[Engine] = snapshot.bal[Engine]

\* C22 - No wrapped total: a batch whose amounts add up to more than the
\* largest word never gets past validation and, once reverted, has moved no
\* balance; the totalAmount a batch is checked against the allowance with
\* and collected is the true sum of the amounts, which fits the word.
C22_NoWrappedTotal ==
  InBatch =>
    /\ SumSeq(amounts) > MaxUint =>
         /\ pc \in {"Received", "Reverted"}
         /\ pc = "Reverted" => LedgerUntouched
    /\ pc \in {"Validated", "Collected", "Distributing", "Committed"} =>
         /\ totalAmount = SumSeq(amounts)
         /\ totalAmount <= MaxUint

\* A batch of nonzero amounts to real recipients whose sum exceeds the
\* word, and whose sum modulo the word the allowance would have covered:
\* reverted by the checked addition.
C22_Witness ==
  /\ InBatch /\ pc = "Reverted" /\ err = "Panic"
  /\ Len(recipients) = Len(amounts)
  /\ SumSeq(amounts) > MaxUint
  /\ SumSeq(amounts) % (MaxUint + 1) <= snapshot.allow[sender]

\* C23 - Success carries a real receipt: a call of executeBatchTransfer on
\* a host with a submission capability that returns success = true returns
\* as txHash the non-empty receipt identifier the transport returned.
C23_SuccessCarriesReceipt ==
  (aVia = "executeBatchTransfer" /\ aPc = "done" /\ aCaps # {} /\ aResult.success) =>
    (aResult.txHash # "" /\ aOutcome = "hash" /\ aResult.txHash = "0xtx")

\* C24 - executeBatchTransfer never throws: a call that is over has
\* returned a result object whatever the input and the host did (the
\* contract not deployed, the lists refused, the encoder or the submission
\* throwing), and a result with success = false has batchId = "",
\* txHash = "", totalAmount = 0 and recipientCount = 0.
C24_NeverThrows ==
  (aVia = "executeBatchTransfer" /\ aPc = "done") =>
    /\ DOMAIN aResult = DOMAIN NoResult
    /\ aResult.success \in BOOLEAN
    /\ ~aResult.success =>
         /\ aResult.batchId = "" /\ aResult.txHash = ""
         /\ aResult.totalAmount = 0 /\ aResult.recipientCount = 0
         /\ aResult.error # ""
    /\ (~isBatchContractDeployed \/ ~Submittable
          \/ (aCaps # {} /\ aOutcome = "throws")) =>
         ~aResult.success

\* The encoder threw on a list of two recipients the validator had passed,
\* and the call returned a failure.
C24_Witness ==
  /\ aVia = "executeBatchTransfer" /\ aPc = "done"
  /\ Len(aRecipients) = 2
  /\ validateBatchTransfer(aRecipients, MicroAmounts).valid
  /\ getBatchTransferCalldata(Token, aRecipients, MicroAmounts).threw # ""
  /\ ~aResult.success

\* C26 - Transport timeout is propagated: a call of a dispatch adapter
\* whose submission the transport never answers eventually returns, with
\* the error TransportTimeout.
C26_TimeoutPropagated ==
  (aPc = "awaiting" /\ aOutcome = "never") ~>
    (aPc = "done" /\ ~aResult.success /\ aResult.error = "TransportTimeout")

\* The steps an invocation of batchSend may take from one state to the next.
BatchTransitions ==
  {<<"Idle", "Received">>, <<"Received", "Validated">>, <<"Validated", "Collected">>,
   <<"Collected", "Distributing">>, <<"Distributing", "Committed">>,
   <<"Received", "Reverted">>, <<"Validated", "Reverted">>,
   <<"Collected", "Reverted">>, <<"Distributing", "Reverted">>,
   <<"Committed", "Idle">>, <<"Reverted", "Idle">>}

BatchStepInOrder ==
  ((InBatch \/ InBatch') /\ pc' # pc) => <<pc, pc'>> \in BatchTransitions

BatchOver == InBatch /\ pc \in {"Committed", "Reverted"}

\* C25 - Definite outcome: an invocation of batchSend moves through
\* Received, Validated, Collected, Distributing in that order, to Committed
\* only from Distributing and to Reverted only from one of those four, and
\* never from one outcome to the other; every invocation received
\* eventually ends Committed or Reverted, and none stays in Collected or
\* Distributing forever.
C25_DefiniteOutcome ==
  /\ [][BatchStepInOrder]_vars
  /\ (InBatch /\ pc = "Received") ~> BatchOver
  /\ (InBatch /\ pc \in {"Collected", "Distributing"}) ~> BatchOver

\* A batch of two recipients reverted out of the distribution loop, after
\* the first recipient had been paid.
C25_Witness ==
  /\ InBatch /\ pc = "Reverted"
  /\ Len(recipients) = 2 /\ idx = 1 /\ tokenCalls = 3

\* Reverted is entered from each of the four states before the outcome.
RevertedFromReceived ==
  InBatch /\ pc = "Reverted" /\ tokenCalls = 0 /\ err # "InsufficientAllowance"
RevertedFromValidated ==
  InBatch /\ pc = "Reverted" /\ (err = "InsufficientAllowance" \/ tokenCalls = 1)
RevertedFromCollected == InBatch /\ pc = "Reverted" /\ tokenCalls = 2 /\ idx = 0

\* C27 - Logout is not undone by an in-flight refresh: when logout was
\* called while a refreshSession call was waiting for the token service
\* and nothing else was called since, the store is logged out once the
\* refreshSession call has returned, with no token and no expiry, and the
\* Xellar service holds no session token.
C27_LogoutNotUndone ==
  (rPc = "done" /\ rLogout) =>
    /\ authStore.user = NoUser /\ ~authStore.isAuthenticated
    /\ authStore.token = Null
    /\ authStore.tokenExpiresAt = NoExpiry
    /\ sessionToken = Null

\* C28 - Auth-store invariant: isAuthenticated is true exactly when user is
\* not null, whatever operations of the store were called; and when a
\* refreshSession call whose token refresh failed has returned, it returned
\* false and user, token, refreshToken and tokenExpiresAt are null.
C28_AuthInvariant ==
  /\ authStore.isAuthenticated <=> (authStore.user # NoUser)
  /\ (rPc = "done" /\ rResponse.threw # "") =>
       /\ rReturned = "false"
       /\ authStore.user = NoUser /\ authStore.token = Null
       /\ authStore.refreshToken = Null /\ authStore.tokenExpiresAt = NoExpiry
       /\ ~authStore.isAuthenticated

\* A logged-in store whose token refresh was refused: the call has
\* returned, and the store is logged out.
C28_Witness ==
  /\ rPc = "done" /\ rResponse.threw # "" /\ ~rLogout
  /\ rReturned = "false"
  /\ authStore.user = NoUser

Store == recipientStore

\* C29 - Batch-mode switching: after setBatchMode(enabled) isBatchMode is
\* enabled and the recipients list is what it was; with enabled true
\* selectedRecipient is null and selectedRecipients is what it was, with
\* enabled false selectedRecipients is empty and selectedRecipient is what
\* it was.
C29_BatchModeSwitch ==
  sLast.op = "setBatchMode" =>
    /\ Store.isBatchMode = sLast.enabled
    /\ Store.recipients = sBefore.recipients
    /\ Store.isLoading = sBefore.isLoading
    /\ sLast.enabled =>
         /\ Store.selectedRecipient = NoSelection
         /\ Store.selectedRecipients = sBefore.selectedRecipients
    /\ ~sLast.enabled =>
         /\ Store.selectedRecipients = <<>>
         /\ Store.selectedRecipient = sBefore.selectedRecipient

\* Batch mode was switched on while a single recipient and a batch of two
\* were selected.
C29_Witness ==
  /\ sLast.op = "setBatchMode" /\ sLast.enabled
  /\ sBefore.selectedRecipient # NoSelection
  /\ Len(sBefore.selectedRecipients) = 2
  /\ sBefore.recipients # <<>>

\* The entries of a list whose id is not the given one, in the order of
\* the list: the j-th of them is the entry at the j-th kept position.
Kept(list, id) == {i \in DOMAIN list : list[i].id # id}

IsRemainder(after, list, id) ==
  /\ Len(after) = Cardinality(Kept(list, id))
  /\ \A k \in Kept(list, id) :
       after[Cardinality({i \in Kept(list, id) : i <= k})] = list[k]

\* C30 - Deleting a recipient purges every reference to it: after
\* deleteRecipient(id) no entry of recipients and no entry of
\* selectedRecipients has that id, selectedRecipient is not a recipient
\* with that id, and the entries with other ids (and a selectedRecipient
\* with another id) are kept, in their order.
C30_DeletePurges ==
  sLast.op = "deleteRecipient" =>
    /\ \A i \in DOMAIN Store.recipients : Store.recipients[i].id # sLast.id
    /\ \A i \in DOMAIN Store.selectedRecipients :
         Store.selectedRecipients[i].id # sLast.id
    /\ Store.selectedRecipient = NoSelection \/ Store.selectedRecipient[1].id # sLast.id
    /\ IsRemainder(Store.recipients, sBefore.recipients, sLast.id)
    /\ IsRemainder(Store.selectedRecipients, sBefore.selectedRecipients, sLast.id)
    /\ (sBefore.selectedRecipient # NoSelection
          /\ sBefore.selectedRecipient[1].id # sLast.id) =>
         Store.selectedRecipient = sBefore.selectedRecipient

\* The recipient deleted stood first in the list, before another one that
\* stays, was the single selection and stood last in a batch selection of
\* two.
C30_Witness ==
  /\ sLast.op = "deleteRecipient"
  /\ Len(sBefore.recipients) = 2
  /\ sBefore.recipients[1].id = sLast.id
  /\ sBefore.recipients[2].id # sLast.id
  /\ sBefore.selectedRecipient # NoSelection
  /\ sBefore.selectedRecipient[1].id = sLast.id
  /\ Len(sBefore.selectedRecipients) = 2
  /\ sBefore.selectedRecipients[1].id # sLast.id
  /\ sBefore.selectedRecipients[2].id = sLast.id

====
